---------------------------- MODULE Spec2Model ----------------------------
(***************************************************************************)
(* Model of the risk probability engine (src/src/probability_model.py,     *)
(* ConditionalProbabilityEngine) and of the temporal regulation adapter    *)
(* (src/src/regulation_adapter.py, RegulationAdapter).                     *)
(*                                                                         *)
(* Python floats are modelled as exact rationals <<n, d>> in lowest terms  *)
(* (d > 0); a float division by zero is the ZeroDivisionError outcome.     *)
(* Python strings that the code transforms (strip, title, lower, strptime) *)
(* are modelled as sequences of one-character strings.                     *)
(***************************************************************************)
EXTENDS Integers, Sequences, FiniteSets, TLC

VARIABLES
    engine,            \* the ConditionalProbabilityEngine object (its attributes)
    adapter,           \* a RegulationAdapter object used on its own
    regulations_json,  \* the regulation source, data/regulations.json
    file,              \* the model file save_model writes and load_model reads
    saved,             \* history: the engine as it was when it wrote the file
    now,               \* datetime.now()
    threads,           \* calls in progress on the engine, one per thread
    handed,            \* a returned dictionary the caller still holds
    result             \* the last call: operation, arguments, outcome

vars ==
    <<engine, adapter, regulations_json, file, saved, now, threads, handed,
      result>>

---------------------------------------------------------------------------
(* Exact rational arithmetic standing for float arithmetic.                *)

RECURSIVE GCD(_, _)
GCD(a, b) == IF b = 0 THEN a ELSE GCD(b, a % b)

Abs(x) == IF x < 0 THEN -x ELSE x

\* the rational n/d in lowest terms with a positive denominator
Q(n, d) ==
    LET g == GCD(Abs(n), Abs(d))
        s == IF d < 0 THEN -1 ELSE 1
    IN  <<(s * n) \div g, (s * d) \div g>>

Int2Q(n) == <<n, 1>>

QAdd(a, b) ==
    LET g == GCD(a[2], b[2])
        l == (a[2] \div g) * b[2]
    IN  Q(a[1] * (l \div a[2]) + b[1] * (l \div b[2]), l)

QNeg(a) == <<-a[1], a[2]>>

QSub(a, b) == QAdd(a, QNeg(b))

QMul(a, b) ==
    LET g1 == GCD(Abs(a[1]), b[2])
        g2 == GCD(Abs(b[1]), a[2])
    IN  IF a[1] = 0 \/ b[1] = 0 THEN <<0, 1>>
        ELSE <<(a[1] \div g1) * (b[1] \div g2), (a[2] \div g2) * (b[2] \div g1)>>

\* a / b for b # 0
QDiv(a, b) ==
    QMul(a, IF b[1] < 0 THEN <<-b[2], -b[1]>> ELSE <<b[2], b[1]>>)

QLt(a, b) == QSub(a, b)[1] < 0

QLe(a, b) == QSub(a, b)[1] <= 0

QZero == <<0, 1>>

QOne == <<1, 1>>

\* sum(seq) of a sequence of rationals
RECURSIVE QSum(_)
QSum(s) == IF s = <<>> THEN QZero ELSE QAdd(s[1], QSum(Tail(s)))

---------------------------------------------------------------------------
(* Strings as sequences of characters: str.strip, str.lower, str.title.    *)

LowerCase ==
    <<"a", "b", "c", "d", "e", "f", "g", "h", "i", "j", "k", "l", "m",
      "n", "o", "p", "q", "r", "s", "t", "u", "v", "w", "x", "y", "z">>

UpperCase ==
    <<"A", "B", "C", "D", "E", "F", "G", "H", "I", "J", "K", "L", "M",
      "N", "O", "P", "Q", "R", "S", "T", "U", "V", "W", "X", "Y", "Z">>

Whitespace == {" "}

Range(s) == {s[i] : i \in 1..Len(s)}

IndexIn(c, s) == CHOOSE i \in 1..Len(s) : s[i] = c

LowerSet == Range(LowerCase)

UpperSet == Range(UpperCase)

UpperOf == [c \in LowerSet |-> UpperCase[IndexIn(c, LowerCase)]]

LowerOf == [c \in UpperSet |-> LowerCase[IndexIn(c, UpperCase)]]

IsCased(c) == c \in LowerSet \/ c \in UpperSet

ToUpper(c) == IF c \in LowerSet THEN UpperOf[c] ELSE c

ToLower(c) == IF c \in UpperSet THEN LowerOf[c] ELSE c

SetMin(S) == CHOOSE x \in S : \A y \in S : x <= y

SetMax(S) == CHOOSE x \in S : \A y \in S : y <= x

\* str.strip(): leading and trailing whitespace removed
strip(s) ==
    LET keep == {i \in 1..Len(s) : s[i] \notin Whitespace}
    IN  IF keep = {} THEN <<>> ELSE SubSeq(s, SetMin(keep), SetMax(keep))

\* str.lower()
lower(s) == [i \in 1..Len(s) |-> ToLower(s[i])]

\* str.title(): a cased character is upper-cased when it follows an uncased
\* one (or starts the string) and lower-cased when it follows a cased one
title(s) ==
    [i \in 1..Len(s) |->
        IF i = 1 \/ ~IsCased(s[i - 1]) THEN ToUpper(s[i]) ELSE ToLower(s[i])]

---------------------------------------------------------------------------
(* Outcomes of a call: a returned value or a raised exception.             *)

Return(v) == [exc |-> "None", val |-> v]

Raise(e) == [exc |-> e]

Returned(o) == o.exc = "None"

---------------------------------------------------------------------------
(* datetime.strptime(s, '%Y-%m-%d') and datetime comparison.  A datetime   *)
(* is modelled by the integer yyyymmdd, which orders as datetimes do.      *)

DigitChars == <<"0", "1", "2", "3", "4", "5", "6", "7", "8", "9">>

DigitSet == Range(DigitChars)

DigitOf == [c \in DigitSet |-> IndexIn(c, DigitChars) - 1]

IsDigit(c) == c \in DigitSet

DigitVal(c) == DigitOf[c]

AllDigits(s) == \A i \in 1..Len(s) : IsDigit(s[i])

\* the decimal value of a sequence of digits
RECURSIVE DecimalVal(_)
DecimalVal(s) ==
    IF s = <<>> THEN 0
    ELSE 10 * DecimalVal(SubSeq(s, 1, Len(s) - 1)) + DigitVal(s[Len(s)])

IsLeap(y) == (y % 4 = 0 /\ y % 100 # 0) \/ y % 400 = 0

DaysInMonth(y, m) ==
    IF m = 2 THEN (IF IsLeap(y) THEN 29 ELSE 28)
    ELSE IF m \in {4, 6, 9, 11} THEN 30 ELSE 31

\* %m matches 1[0-2]|0[1-9]|[1-9]
MonthField(f) ==
    Len(f) \in {1, 2} /\ AllDigits(f) /\ DecimalVal(f) \in 1..12

\* %d matches 3[0-1]|[1-2]\d|0[1-9]|[1-9]| [1-9]
DayField(f) ==
    \/ Len(f) \in {1, 2} /\ AllDigits(f) /\ DecimalVal(f) \in 1..31
    \/ Len(f) = 2 /\ f[1] = " " /\ IsDigit(f[2]) /\ DigitVal(f[2]) >= 1

DayValue(f) == IF f[1] = " " THEN DigitVal(f[2]) ELSE DecimalVal(f)

\* %Y is exactly four digits, the fields are separated by "-" and the whole
\* string must be consumed; datetime() then rejects year 0 and a day the
\* month does not have.  Anything else raises ValueError.
strptime(s) ==
    LET dashes == {i \in 1..Len(s) : s[i] = "-"}
        p == SetMax(dashes)
        y == DecimalVal(SubSeq(s, 1, 4))
        mf == SubSeq(s, 6, p - 1)
        df == SubSeq(s, p + 1, Len(s))
    IN  IF /\ Len(s) >= 8
           /\ AllDigits(SubSeq(s, 1, 4))
           /\ Cardinality(dashes) = 2
           /\ SetMin(dashes) = 5
           /\ MonthField(mf)
           /\ DayField(df)
           /\ y >= 1
           /\ DayValue(df) <= DaysInMonth(y, DecimalVal(mf))
        THEN Return(y * 10000 + DecimalVal(mf) * 100 + DayValue(df))
        ELSE Raise("ValueError")

---------------------------------------------------------------------------
(* RegulationAdapter (src/src/regulation_adapter.py).                      *)

RiskLevels == <<"Low", "Medium", "High">>

\* a probabilities dictionary {'Low': l, 'Medium': m, 'High': h}
Probs(l, m, h) == [Low |-> l, Medium |-> m, High |-> h]

\* sum(d.values())
SumValues(d) == QSum(<<d.Low, d.Medium, d.High>>)

\* {k: v/total for k, v in d.items()}; float division by zero raises
Normalize(d) ==
    LET total == SumValues(d)
    IN  IF total[1] = 0 THEN Raise("ZeroDivisionError")
        ELSE Return(Probs(QDiv(d.Low, total), QDiv(d.Medium, total),
                          QDiv(d.High, total)))

\* _load_regulations: the records of the source, each with its parsed date;
\* the order is the order of the source
_load_regulations(source) ==
    [i \in 1..Len(source) |->
        [id |-> source[i].id, name |-> source[i].name,
         effective_date |-> source[i].effective_date,
         effective_date_obj |-> strptime(source[i].effective_date).val,
         description |-> source[i].description,
         impact_weight |-> source[i].impact_weight]]

\* RegulationAdapter.__init__
NewAdapter(source) == [regulations |-> _load_regulations(source)]

\* variant: the records that are not yet in force on the date
get_applicable_regulations_reversed(self, inspection_date) ==
    LET Applies(reg) == reg.effective_date_obj >= inspection_date
    IN  SelectSeq(self.regulations, Applies)

get_applicable_regulations(self, inspection_date) ==
    LET Applies(reg) == reg.effective_date_obj <= inspection_date
    IN  SelectSeq(self.regulations, Applies)

ImpactWeights(regs) == [i \in 1..Len(regs) |-> regs[i].impact_weight]

\* cumulative_weight: 1.0 multiplied by each weight in turn
RECURSIVE QProduct(_)
QProduct(s) == IF s = <<>> THEN QOne ELSE QMul(Head(s), QProduct(Tail(s)))

\* min(max(x, 0.0), 1.0)
Clamp(x) == IF QLt(x, QZero) THEN QZero ELSE IF QLt(QOne, x) THEN QOne ELSE x

\* the entries of applied_regulations
Applied(regs) ==
    [i \in 1..Len(regs) |->
        [id |-> regs[i].id, name |-> regs[i].name,
         effective_date |-> regs[i].effective_date,
         impact_weight |-> regs[i].impact_weight]]

\* variant: the weights are averaged
calculate_temporal_weight_mean(self, inspection_date, base_risk_score) ==
    LET Weigh(applicable_regs) ==
            IF applicable_regs = <<>> THEN Return(<<base_risk_score, <<>>>>)
            ELSE Return(<<Clamp(QMul(base_risk_score,
                            QDiv(QSum(ImpactWeights(applicable_regs)),
                                 Int2Q(Len(applicable_regs))))),
                          Applied(applicable_regs)>>)
    IN  Weigh(get_applicable_regulations(self, inspection_date))

\* calculate_temporal_weight: (adjusted score, applied regulations)
calculate_temporal_weight(self, inspection_date, base_risk_score) ==
    LET Weigh(applicable_regs) ==
            IF applicable_regs = <<>> THEN Return(<<base_risk_score, <<>>>>)
            ELSE Return(<<Clamp(QMul(base_risk_score,
                            QProduct(ImpactWeights(applicable_regs)))),
                          Applied(applicable_regs)>>)
    IN  Weigh(get_applicable_regulations(self, inspection_date))

adjust_risk_probabilities(self, probabilities, inspection_date) ==
    LET applicable_regs == get_applicable_regulations(self, inspection_date)
        avg_impact == QDiv(QSum(ImpactWeights(applicable_regs)),
                           Int2Q(Len(applicable_regs)))
        half == Q(1, 2)
        up == QMul(QSub(avg_impact, QOne), half)
        down == QMul(QSub(QOne, avg_impact), half)
        adjusted_probs ==
            IF QLt(QOne, avg_impact) THEN
                Probs(QMul(probabilities.Low, QSub(QOne, QMul(up, half))),
                      QMul(probabilities.Medium, QSub(QOne, up)),
                      QAdd(probabilities.High, QMul(up, probabilities.Medium)))
            ELSE IF QLt(avg_impact, QOne) THEN
                Probs(QAdd(probabilities.Low, QMul(down, probabilities.Medium)),
                      QMul(probabilities.Medium, QSub(QOne, down)),
                      QMul(probabilities.High, QSub(QOne, QMul(down, half))))
            ELSE probabilities
    IN  IF applicable_regs = <<>> THEN Return(probabilities)
        ELSE Normalize(adjusted_probs)

get_regulation_by_id(self, regulation_id) ==
    LET hits == {i \in 1..Len(self.regulations) :
                    self.regulations[i].id = regulation_id}
        reg == self.regulations[SetMin(hits)]
    IN  IF hits = {} THEN Raise("NotFound")
        ELSE Return([id |-> reg.id, name |-> reg.name,
                     effective_date |-> reg.effective_date,
                     description |-> reg.description,
                     impact_weight |-> reg.impact_weight])

\* variant: no check of the id against the records already held
add_regulation_unchecked(self, regulation_id, name, effective_date, description, impact_weight) ==
    LET effective_date_obj == strptime(effective_date)
        new_regulation ==
            [id |-> regulation_id, name |-> name,
             effective_date |-> effective_date,
             effective_date_obj |-> effective_date_obj.val,
             description |-> description,
             impact_weight |-> impact_weight]
    IN  IF ~Returned(effective_date_obj) THEN <<FALSE, self>>
        ELSE <<TRUE, [self EXCEPT !.regulations = Append(@, new_regulation)]>>

\* add_regulation: <<return value, the adapter afterwards>>
add_regulation(self, regulation_id, name, effective_date, description, impact_weight) ==
    LET effective_date_obj == strptime(effective_date)
        new_regulation ==
            [id |-> regulation_id, name |-> name,
             effective_date |-> effective_date,
             effective_date_obj |-> effective_date_obj.val,
             description |-> description,
             impact_weight |-> impact_weight]
    IN  IF \E i \in 1..Len(self.regulations) :
                self.regulations[i].id = regulation_id
        THEN <<FALSE, self>>
        ELSE IF ~Returned(effective_date_obj) THEN <<FALSE, self>>
        ELSE <<TRUE, [self EXCEPT !.regulations = Append(@, new_regulation)]>>

---------------------------------------------------------------------------
(* ConditionalProbabilityEngine (src/src/probability_model.py).            *)

\* string literals of the source, as character sequences
Sushi == <<"S", "u", "s", "h", "i">>

FastFood == <<"F", "a", "s", "t", " ", "F", "o", "o", "d">>

FineDining == <<"F", "i", "n", "e", " ", "D", "i", "n", "i", "n", "g">>

Bakery == <<"B", "a", "k", "e", "r", "y">>

BBQ == <<"B", "B", "Q">>

Other == <<"O", "t", "h", "e", "r">>

montreal == <<"m", "o", "n", "t", "r", "e", "a", "l">>

quebec == <<"q", "u", "e", "b", "e", "c">>

laval == <<"l", "a", "v", "a", "l">>

gatineau == <<"g", "a", "t", "i", "n", "e", "a", "u">>

\* None / a present value of an Optional argument or attribute
None == <<>>

Some(x) == <<x>>

DefaultPriorRisk == Probs(Q(60, 100), Q(30, 100), Q(10, 100))

DefaultCuisineRiskProbs ==
    (Sushi :> Probs(Q(30, 100), Q(40, 100), Q(30, 100))) @@
    (FastFood :> Probs(Q(50, 100), Q(35, 100), Q(15, 100))) @@
    (FineDining :> Probs(Q(70, 100), Q(25, 100), Q(5, 100))) @@
    (Bakery :> Probs(Q(75, 100), Q(20, 100), Q(5, 100))) @@
    (BBQ :> Probs(Q(55, 100), Q(30, 100), Q(15, 100))) @@
    (Other :> Probs(Q(60, 100), Q(30, 100), Q(10, 100)))

DefaultStaffThresholds ==
    [small |-> <<0, 5>>, medium |-> <<6, 15>>, large |-> <<16, 100>>]

DefaultInfractionWeights ==
    (0 :> Q(0, 100)) @@ (1 :> Q(15, 100)) @@ (2 :> Q(30, 100)) @@
    (3 :> Q(50, 100)) @@ (4 :> Q(70, 100))

\* __init__(enable_temporal_adjustment), the regulation file being readable:
\* the adapter is created, and the flag set, only when it is asked for
NewEngine(enable_temporal_adjustment, source) ==
    [prior_risk |-> DefaultPriorRisk,
     cuisine_risk_probs |-> DefaultCuisineRiskProbs,
     staff_thresholds |-> DefaultStaffThresholds,
     infraction_weights |-> DefaultInfractionWeights,
     regulation_adapter |->
        IF enable_temporal_adjustment THEN Some(NewAdapter(source)) ELSE None,
     temporal_adjustment_enabled |-> enable_temporal_adjustment]

\* the lookup itself raises KeyError when 'Other' is not a key
_get_cuisine_probability(self, cuisine_type) ==
    LET key == title(strip(cuisine_type))
    IN  IF key \in DOMAIN self.cuisine_risk_probs
        THEN Return(self.cuisine_risk_probs[key])
        ELSE IF Other \in DOMAIN self.cuisine_risk_probs
        THEN Return(self.cuisine_risk_probs[Other])
        ELSE Raise("KeyError")

_calculate_staff_factor(staff_count) ==
    IF staff_count <= 5 THEN Q(-10, 100)
    ELSE IF staff_count <= 15 THEN Q(0, 100)
    ELSE Q(15, 100)

_calculate_infraction_factor(self, infractions) ==
    LET capped == IF infractions >= 4 THEN 4 ELSE infractions
    IN  IF capped \in DOMAIN self.infraction_weights
        THEN self.infraction_weights[capped]
        ELSE Q(0, 100)

\* kitchen_size in whole square metres
_calculate_kitchen_factor(kitchen_size) ==
    IF kitchen_size < 20 THEN Q(-5, 100)
    ELSE IF kitchen_size < 50 THEN Q(0, 100)
    ELSE Q(10, 100)

region_factors ==
    (montreal :> Q(5, 100)) @@ (quebec :> Q(0, 100)) @@
    (laval :> Q(2, 100)) @@ (gatineau :> Q(0, 100))

_calculate_region_factor(region) ==
    LET key == lower(strip(region))
    IN  IF key \in DOMAIN region_factors THEN region_factors[key] ELSE Q(0, 100)

\* prob = cuisine_probs[level] multiplied by (1 + f) for the four factors
Combined(prob, staff_factor, infraction_factor, kitchen_factor, region_factor) ==
    QMul(QMul(QMul(QMul(prob, QAdd(QOne, staff_factor)),
                   QAdd(QOne, infraction_factor)),
              QAdd(QOne, kitchen_factor)),
         QAdd(QOne, region_factor))

\* variant: the infraction factor multiplies Low and Medium but not High
calculate_risk_probability_high_exempt(self, cuisine_type, staff_count, infractions_history, kitchen_size, region, inspection_date) ==
    LET date == IF inspection_date = None THEN now ELSE inspection_date[1]
        staff_factor == _calculate_staff_factor(staff_count)
        infraction_factor == _calculate_infraction_factor(self, infractions_history)
        kitchen_factor == _calculate_kitchen_factor(kitchen_size)
        region_factor == _calculate_region_factor(region)
        F(prob) == Combined(prob, staff_factor, infraction_factor,
                            kitchen_factor, region_factor)
        G(prob) == Combined(prob, staff_factor, QZero,
                            kitchen_factor, region_factor)
        Adjusted(final_probs) ==
            IF ~Returned(final_probs) THEN final_probs
            ELSE IF self.temporal_adjustment_enabled
                        /\ self.regulation_adapter # None
            THEN adjust_risk_probabilities(self.regulation_adapter[1],
                                           final_probs.val, date)
            ELSE final_probs
        Final(cuisine_probs) ==
            IF ~Returned(cuisine_probs) THEN cuisine_probs
            ELSE Adjusted(Normalize(Probs(F(cuisine_probs.val.Low),
                                          F(cuisine_probs.val.Medium),
                                          G(cuisine_probs.val.High))))
    IN  Final(_get_cuisine_probability(self, cuisine_type))

calculate_risk_probability(self, cuisine_type, staff_count, infractions_history, kitchen_size, region, inspection_date) ==
    LET date == IF inspection_date = None THEN now ELSE inspection_date[1]
        staff_factor == _calculate_staff_factor(staff_count)
        infraction_factor == _calculate_infraction_factor(self, infractions_history)
        kitchen_factor == _calculate_kitchen_factor(kitchen_size)
        region_factor == _calculate_region_factor(region)
        F(prob) == Combined(prob, staff_factor, infraction_factor,
                            kitchen_factor, region_factor)
        Adjusted(final_probs) ==
            IF ~Returned(final_probs) THEN final_probs
            ELSE IF self.temporal_adjustment_enabled
                        /\ self.regulation_adapter # None
            THEN adjust_risk_probabilities(self.regulation_adapter[1],
                                           final_probs.val, date)
            ELSE final_probs
        Final(cuisine_probs) ==
            IF ~Returned(cuisine_probs) THEN cuisine_probs
            ELSE Adjusted(Normalize(Probs(F(cuisine_probs.val.Low),
                                          F(cuisine_probs.val.Medium),
                                          F(cuisine_probs.val.High))))
    IN  Final(_get_cuisine_probability(self, cuisine_type))

\* variant: the last maximal key in the dictionary's order
ArgMax_last(probs) ==
    IF QLe(probs.Low, probs.High) /\ QLe(probs.Medium, probs.High) THEN "High"
    ELSE IF QLe(probs.Low, probs.Medium) THEN "Medium"
    ELSE "Low"

\* max(probs, key=probs.get): the first maximal key in the dictionary's order
ArgMax(probs) ==
    IF QLe(probs.Medium, probs.Low) /\ QLe(probs.High, probs.Low) THEN "Low"
    ELSE IF QLe(probs.High, probs.Medium) THEN "Medium"
    ELSE "High"

predict_risk_level(self, cuisine_type, staff_count, infractions_history, kitchen_size, region, inspection_date) ==
    LET Level(probs) ==
            LET risk_level == ArgMax(probs.val)
            IN  IF ~Returned(probs) THEN probs
                ELSE Return(<<risk_level, probs.val[risk_level]>>)
    IN  Level(calculate_risk_probability(self, cuisine_type, staff_count,
                  infractions_history, kitchen_size, region, inspection_date))

\* p * np.log2(p + 1e-10), by its sign.  The tables hold fractions with
\* denominators far below 10^10, so p + 1e-10 > 1 exactly when p >= 1 and
\* p + 1e-10 <= 0 exactly when p < 0, where np.log2 gives nan.
EntropyTerm(p) ==
    IF QLt(p, QZero) THEN "nan"
    ELSE IF p = QZero THEN "zero"
    ELSE IF QLt(p, QOne) THEN "negative"
    ELSE "positive"

\* confidence_score = 1 - entropy / np.log2(3), by where it falls.  With
\* every term zero or negative the entropy is at least 0 and, the values
\* summing to 1, at most log2(3); a positive term next to zeros makes the
\* entropy negative.
ConfidenceScore(probs) ==
    LET terms == {EntropyTerm(probs[RiskLevels[k]]) : k \in 1..3}
    IN  IF "nan" \in terms THEN "nan"
        ELSE IF "positive" \notin terms THEN "in [0, 1]"
        ELSE IF "negative" \notin terms THEN "above 1"
        ELSE "undetermined"

\* predict_with_confidence; confidence_level and entropy, which follow from
\* confidence_score, are left out of the dictionary
predict_with_confidence(self, cuisine_type, staff_count, infractions_history, kitchen_size, region, inspection_date) ==
    LET Confidence(probs) ==
            IF ~Returned(probs) THEN probs
            ELSE Return([predicted_risk |-> ArgMax(probs.val),
                         probability |-> probs.val[ArgMax(probs.val)],
                         all_probabilities |-> probs.val,
                         confidence_score |-> ConfidenceScore(probs.val)])
    IN  Confidence(calculate_risk_probability(self, cuisine_type, staff_count,
                  infractions_history, kitchen_size, region, inspection_date))

---------------------------------------------------------------------------
(* Historical datasets (pandas DataFrames): the set of column names and    *)
(* the rows, each a record over those columns.                             *)

DataFrame(columns, rows) == [columns |-> columns, rows |-> rows]

\* len(data[data[column] == value])
Count(rows, column, value) ==
    Cardinality({i \in 1..Len(rows) : rows[i][column] = value})

\* the rows of data[data[column] == value]
Where(rows, column, value) ==
    LET Keep(row) == row[column] = value
    IN  SelectSeq(rows, Keep)

\* data[column].unique()
Unique(rows, column) == {rows[i][column] : i \in 1..Len(rows)}

\* training_data.rename(columns={'actual_risk_level': 'risk_level'})
RenameLabel(data) ==
    IF "actual_risk_level" \notin data.columns THEN data
    ELSE DataFrame((data.columns \ {"actual_risk_level"}) \cup {"risk_level"},
            [i \in 1..Len(data.rows) |->
                [c \in (DOMAIN data.rows[i] \ {"actual_risk_level"})
                        \cup {"risk_level"} |->
                    IF c = "risk_level" THEN data.rows[i].actual_risk_level
                    ELSE data.rows[i][c]]])

\* the empirical {'Low': .., 'Medium': .., 'High': ..} of rows (len(rows) > 0)
Frequencies(rows) ==
    Probs(Q(Count(rows, "risk_level", "Low"), Len(rows)),
          Q(Count(rows, "risk_level", "Medium"), Len(rows)),
          Q(Count(rows, "risk_level", "High"), Len(rows)))

\* variant: the frequencies are written to the 'Other' entry as well
update_priors_fallback(self, new_data) ==
    IF "risk_level" \notin new_data.columns THEN <<Return(None), self>>
    ELSE IF Len(new_data.rows) = 0 THEN <<Raise("ZeroDivisionError"), self>>
    ELSE <<Return(None),
           [self EXCEPT !.prior_risk = Frequencies(new_data.rows),
                        !.cuisine_risk_probs[Other] = Frequencies(new_data.rows)]>>

\* update_priors: <<outcome, the engine afterwards>>; the first division
\* raises on an empty dataset, before any assignment
update_priors(self, new_data) ==
    IF "risk_level" \notin new_data.columns THEN <<Return(None), self>>
    ELSE IF Len(new_data.rows) = 0 THEN <<Raise("ZeroDivisionError"), self>>
    ELSE <<Return(None), [self EXCEPT !.prior_risk = Frequencies(new_data.rows)]>>

\* variant: the table is rebuilt from the data alone
learn_cuisine_probabilities_rebuilt(self, data) ==
    IF "cuisine_type" \notin data.columns \/ "risk_level" \notin data.columns
    THEN self
    ELSE LET cuisine_types == Unique(data.rows, "cuisine_type")
         IN  [self EXCEPT !.cuisine_risk_probs =
                [c \in cuisine_types \cup {Other} |->
                    IF c \in cuisine_types
                    THEN Frequencies(Where(data.rows, "cuisine_type", c))
                    ELSE @[c]]]

\* variant: the table is replaced by the entries learned from the data
learn_cuisine_probabilities_replacing(self, data) ==
    IF "cuisine_type" \notin data.columns \/ "risk_level" \notin data.columns
    THEN self
    ELSE LET cuisine_types == Unique(data.rows, "cuisine_type")
         IN  IF cuisine_types = {} THEN self
             ELSE [self EXCEPT !.cuisine_risk_probs =
                    [c \in cuisine_types |->
                        Frequencies(Where(data.rows, "cuisine_type", c))]]

\* learn_cuisine_probabilities: the engine afterwards.  The keys written
\* are the cuisine values as they stand in the data.
learn_cuisine_probabilities(self, data) ==
    IF "cuisine_type" \notin data.columns \/ "risk_level" \notin data.columns
    THEN self
    ELSE LET cuisine_types == Unique(data.rows, "cuisine_type")
         IN  [self EXCEPT !.cuisine_risk_probs =
                [c \in (DOMAIN @) \cup cuisine_types |->
                    IF c \in cuisine_types
                    THEN Frequencies(Where(data.rows, "cuisine_type", c))
                    ELSE @[c]]]

RequiredCols ==
    {"cuisine_type", "staff_count", "infractions_history", "kitchen_size",
     "region", "actual_risk_level"}

\* the predictions calibrate_model and cross_validate make for the rows
RowPredictions(self, rows) ==
    [i \in 1..Len(rows) |->
        predict_risk_level(self, rows[i].cuisine_type, rows[i].staff_count,
            rows[i].infractions_history, rows[i].kitchen_size, rows[i].region,
            None)]

\* accuracy_score(actuals, predictions) for a non-empty list
Accuracy(rows, predictions) ==
    Q(Cardinality({i \in 1..Len(rows) :
            predictions[i].val[1] = rows[i].actual_risk_level}), Len(rows))

\* variant: the table is learned before the columns are checked
calibrate_model_unchecked(self, training_data) ==
    LET Metrics(learned, predictions) ==
            LET failed == {i \in 1..Len(predictions) : ~Returned(predictions[i])}
            IN  IF failed # {} THEN <<predictions[SetMin(failed)], learned>>
                ELSE <<Return([accuracy |->
                                   Accuracy(training_data.rows, predictions),
                               training_samples |-> Len(training_data.rows)]),
                       learned>>
        Calibrated(learned) ==
            IF ~(RequiredCols \subseteq training_data.columns)
            THEN <<Return(<<>>), learned>>
            ELSE Metrics(learned, RowPredictions(learned, training_data.rows))
    IN  Calibrated(learn_cuisine_probabilities(self, RenameLabel(training_data)))

\* calibrate_model: <<outcome, the engine afterwards>>.  The table is learned
\* before the rows are predicted, so a prediction that raises leaves it learned.
calibrate_model(self, training_data) ==
    LET Metrics(learned, predictions) ==
            LET failed == {i \in 1..Len(predictions) : ~Returned(predictions[i])}
            IN  IF failed # {} THEN <<predictions[SetMin(failed)], learned>>
                ELSE <<Return([accuracy |->
                                   Accuracy(training_data.rows, predictions),
                               training_samples |-> Len(training_data.rows)]),
                       learned>>
        Calibrated(learned) ==
            Metrics(learned, RowPredictions(learned, training_data.rows))
    IN  IF ~(RequiredCols \subseteq training_data.columns)
        THEN <<Return(<<>>), self>>
        ELSE Calibrated(learn_cuisine_probabilities(self,
                            RenameLabel(training_data)))

---------------------------------------------------------------------------
(* Cross-validation.  KFold(n_splits, shuffle=True, random_state=42) cuts  *)
(* a shuffled order of the row indices into n_splits consecutive chunks,   *)
(* the first n % n_splits of them one longer than the others; shuffle is   *)
(* the order it draws.                                                     *)

\* the orders of the indices 1..n
Shuffles(n) ==
    {p \in [1..n -> 1..n] : \A i, j \in 1..n : p[i] = p[j] => i = j}

\* the length of chunk j and the position before its first element
FoldSize(n, n_folds, j) == (n \div n_folds) + (IF j <= n % n_folds THEN 1 ELSE 0)

FoldStart(n, n_folds, j) ==
    (j - 1) * (n \div n_folds)
        + (IF j - 1 <= n % n_folds THEN j - 1 ELSE n % n_folds)

\* test_idx of fold j
TestIndices(shuffle, n_folds, j) ==
    {shuffle[i] : i \in (FoldStart(Len(shuffle), n_folds, j) + 1)
                        ..(FoldStart(Len(shuffle), n_folds, j)
                            + FoldSize(Len(shuffle), n_folds, j))}

\* data.iloc[idx]: the rows at the indices, in the frame's order
ILoc(rows, idx) ==
    LET In(i) == i \in idx
        kept == SelectSeq([i \in 1..Len(rows) |-> i], In)
    IN  [k \in 1..Len(kept) |-> rows[kept[k]]]

\* the frame lacks one of the columns the loop reads from each test row
MissingColumn(columns) ==
    \E c \in RequiredCols : c \notin columns

\* np.mean(fold_scores)
Mean(fold_scores) == QDiv(QSum(fold_scores), Int2Q(Len(fold_scores)))

\* the folds from j on: <<outcome, the engine afterwards>>; an exception in
\* calibrate_model or in a prediction ends the call
RECURSIVE Folds(_, _, _, _, _, _)
Folds(self, data, n_folds, shuffle, j, fold_scores) ==
    LET test_idx == TestIndices(shuffle, n_folds, j)
        train_data == DataFrame(data.columns,
                        ILoc(data.rows, (1..Len(data.rows)) \ test_idx))
        test_rows == ILoc(data.rows, test_idx)
        Score(calibrated, predictions) ==
            LET failed == {i \in 1..Len(predictions) : ~Returned(predictions[i])}
            IN  IF failed # {} THEN <<predictions[SetMin(failed)], calibrated>>
                ELSE Folds(calibrated, data, n_folds, shuffle, j + 1,
                           Append(fold_scores, Accuracy(test_rows, predictions)))
        Test(r) ==
            IF ~Returned(r[1]) THEN r
            ELSE IF MissingColumn(data.columns) THEN <<Raise("KeyError"), r[2]>>
            ELSE Score(r[2], RowPredictions(r[2], test_rows))
    IN  IF j > n_folds
        THEN <<Return([mean_accuracy |-> Mean(fold_scores),
                       fold_scores |-> fold_scores,
                       n_folds |-> n_folds]), self>>
        ELSE Test(calibrate_model(self, train_data))

\* cross_validate: <<outcome, the engine afterwards>>.  KFold refuses fewer
\* than 2 splits and more splits than rows with ValueError.  std_accuracy, a
\* square root, is left out of the returned dictionary.
cross_validate(self, data, n_folds, shuffle) ==
    IF n_folds <= 1 \/ n_folds > Len(data.rows)
    THEN <<Raise("ValueError"), self>>
    ELSE Folds(self, data, n_folds, shuffle, 1, <<>>)

---------------------------------------------------------------------------
(* Empirical probabilities computed from a dataset.                        *)

\* data.empty: an axis of the frame has length 0
empty(data) == Len(data.rows) = 0 \/ data.columns = {}

\* len(data[(data[column_a] == event_a) & (data[column_b] == event_b)])
CountBoth(rows, column_a, event_a, column_b, event_b) ==
    Cardinality({i \in 1..Len(rows) :
        rows[i][column_a] = event_a /\ rows[i][column_b] = event_b})

calculate_conditional_probability(event_a, event_b, data, column_a, column_b) ==
    IF empty(data) THEN Return(QZero)
    ELSE IF column_a \notin data.columns \/ column_b \notin data.columns
    THEN Return(QZero)
    ELSE IF Count(data.rows, column_b, event_b) = 0 THEN Return(QZero)
    ELSE LET prob_b == Q(Count(data.rows, column_b, event_b), Len(data.rows))
             prob_a_and_b ==
                Q(CountBoth(data.rows, column_a, event_a, column_b, event_b),
                  Len(data.rows))
         IN  Return(QDiv(prob_a_and_b, prob_b))

\* the rows left after filtering by each (column, value) of events in turn;
\* a column the frame lacks ends the call
RECURSIVE Filtered(_, _, _)
Filtered(rows, columns, events) ==
    IF events = <<>> THEN Return(rows)
    ELSE IF Head(events)[1] \notin columns THEN Raise("missing column")
    ELSE Filtered(Where(rows, Head(events)[1], Head(events)[2]), columns,
                  Tail(events))

\* events: the (column, value) items of the dictionary, in its order
calculate_joint_probability(events, data) ==
    LET Joint(filtered_data) ==
            IF ~Returned(filtered_data) THEN Return(QZero)
            ELSE Return(Q(Len(filtered_data.val), Len(data.rows)))
    IN  IF empty(data) THEN Return(QZero)
        ELSE Joint(Filtered(data.rows, data.columns, events))

\* variant: the product P(E|H) * P(H) is returned without the division by P(E)
calculate_bayes_theorem_joint(hypothesis, evidence, data, hypothesis_col, evidence_col) ==
    IF hypothesis_col \notin data.columns \/ evidence_col \notin data.columns
    THEN Raise("KeyError")
    ELSE LET n == Len(data.rows)
             count_h == Count(data.rows, hypothesis_col, hypothesis)
             count_e == Count(data.rows, evidence_col, evidence)
             prob_h == IF n > 0 THEN Q(count_h, n) ELSE QZero
             prob_e == IF n > 0 THEN Q(count_e, n) ELSE QZero
             count_e_given_h ==
                CountBoth(data.rows, hypothesis_col, hypothesis,
                          evidence_col, evidence)
             prob_e_given_h ==
                IF count_h > 0 THEN Q(count_e_given_h, count_h) ELSE QZero
         IN  IF prob_e = QZero THEN Return(QZero)
             ELSE Return(QMul(prob_e_given_h, prob_h))

\* data[hypothesis_col] and data[evidence_col] raise KeyError when the frame
\* lacks the column
calculate_bayes_theorem(hypothesis, evidence, data, hypothesis_col, evidence_col) ==
    IF hypothesis_col \notin data.columns \/ evidence_col \notin data.columns
    THEN Raise("KeyError")
    ELSE LET n == Len(data.rows)
             count_h == Count(data.rows, hypothesis_col, hypothesis)
             count_e == Count(data.rows, evidence_col, evidence)
             prob_h == IF n > 0 THEN Q(count_h, n) ELSE QZero
             prob_e == IF n > 0 THEN Q(count_e, n) ELSE QZero
             count_e_given_h ==
                CountBoth(data.rows, hypothesis_col, hypothesis,
                          evidence_col, evidence)
             prob_e_given_h ==
                IF count_h > 0 THEN Q(count_e_given_h, count_h) ELSE QZero
         IN  IF prob_e = QZero THEN Return(QZero)
             ELSE Return(QDiv(QMul(prob_e_given_h, prob_h), prob_e))

---------------------------------------------------------------------------
(* Persistence: save_model pickles a dictionary, load_model reads it back. *)

NoFile == [kind |-> "missing"]

Unreadable == [kind |-> "garbage"]

Pickle(model_data) == [kind |-> "pickle", model_data |-> model_data]

\* the dictionary save_model writes
ModelData(self) ==
    [prior_risk |-> self.prior_risk,
     cuisine_risk_probs |-> self.cuisine_risk_probs,
     staff_thresholds |-> self.staff_thresholds,
     infraction_weights |-> self.infraction_weights,
     temporal_adjustment_enabled |-> self.temporal_adjustment_enabled,
     version |-> "3.0",
     saved_date |-> now]

\* save_model: <<return value, the file afterwards>>; writable says whether
\* open(filepath, 'wb') succeeds
save_model(self, f, writable) ==
    IF writable THEN <<TRUE, Pickle(ModelData(self))>> ELSE <<FALSE, f>>

\* load_model: <<return value, the engine afterwards>>.  The four attributes
\* are assigned one after the other; a missing key raises KeyError at its
\* assignment, which the except clause turns into False.
load_model(self, f) ==
    LET model_data == f.model_data
        Has(k) == k \in DOMAIN model_data
        s1 == [self EXCEPT !.prior_risk = model_data.prior_risk]
        s2 == [s1 EXCEPT !.cuisine_risk_probs = model_data.cuisine_risk_probs]
        s3 == [s2 EXCEPT !.staff_thresholds = model_data.staff_thresholds]
        s4 == [s3 EXCEPT !.infraction_weights = model_data.infraction_weights]
    IN  IF f.kind # "pickle" THEN <<FALSE, self>>
        ELSE IF ~Has("prior_risk") THEN <<FALSE, self>>
        ELSE IF ~Has("cuisine_risk_probs") THEN <<FALSE, s1>>
        ELSE IF ~Has("staff_thresholds") THEN <<FALSE, s2>>
        ELSE IF ~Has("infraction_weights") THEN <<FALSE, s3>>
        ELSE <<TRUE, s4>>

\* get_model_summary: the dictionary returned.  Its prior_risk_distribution
\* is self.prior_risk itself, not a copy; cuisine_types_supported is the
\* list of the table's keys, here their set.
get_model_summary(self) ==
    [version |-> "3.0",
     prior_risk_distribution |-> self.prior_risk,
     cuisine_types_supported |-> DOMAIN self.cuisine_risk_probs,
     temporal_adjustment |-> self.temporal_adjustment_enabled,
     staff_thresholds |-> self.staff_thresholds,
     infraction_weights |-> self.infraction_weights]

---------------------------------------------------------------------------
(* Inputs.                                                                 *)

Str_2024_01_01 == <<"2", "0", "2", "4", "-", "0", "1", "-", "0", "1">>

Str_2018_5_3 == <<"2", "0", "1", "8", "-", "5", "-", "3">>

Str_2023_02_30 == <<"2", "0", "2", "3", "-", "0", "2", "-", "3", "0">>

Str_invalid_date ==
    <<"i", "n", "v", "a", "l", "i", "d", "-", "d", "a", "t", "e">>

Str_2020_01_01 == <<"2", "0", "2", "0", "-", "0", "1", "-", "0", "1">>

Str_2021_06_15 == <<"2", "0", "2", "1", "-", "0", "6", "-", "1", "5">>

Str_2022_09_01 == <<"2", "0", "2", "2", "-", "0", "9", "-", "0", "1">>

Regulation(id, name, effective_date, impact_weight) ==
    [id |-> id, name |-> name, effective_date |-> effective_date,
     description |-> "description", impact_weight |-> impact_weight]

\* contents of data/regulations.json: no record, or three records in force
\* from 2020, 2021 and 2022
StandardSource ==
    <<Regulation("REG-001", "Regulation 1", Str_2020_01_01, Q(110, 100)),
      Regulation("REG-002", "Regulation 2", Str_2021_06_15, Q(115, 100)),
      Regulation("REG-003", "Regulation 3", Str_2022_09_01, Q(95, 100))>>

RegulationSources == {<<>>, StandardSource}

\* inspection dates (yyyymmdd) and the reading of the clock
InspectionDates == {20190101, 20230601}

ClockValues == {20251202}

DistInputs ==
    {Probs(Q(30, 100), Q(50, 100), Q(20, 100)),
     Probs(Q(60, 100), Q(30, 100), Q(10, 100)),
     Probs(Q(1, 3), Q(1, 3), Q(1, 3)),
     Probs(Q(1, 1), Q(0, 1), Q(0, 1)),
     Probs(Q(0, 1), Q(1, 1), Q(0, 1)),
     Probs(Q(0, 1), Q(0, 1), Q(1, 1))}

Str_sushi == <<" ", "s", "u", "s", "h", "i">>

Str_Thai == <<"T", "h", "a", "i">>

Str_Nonexistent ==
    <<"N", "o", "n", "e", "x", "i", "s", "t", "e", "n", "t", " ",
      "S", "t", "y", "l", "e">>

Str_Montreal == <<"M", "o", "n", "t", "r", "e", "a", "l">>

Str_Laval == <<"L", "a", "v", "a", "l", " ">>

Str_Paris == <<"P", "a", "r", "i", "s">>

Factors(cuisine_type, staff_count, infractions_history, kitchen_size, region, inspection_date) ==
    [cuisine_type |-> cuisine_type, staff_count |-> staff_count,
     infractions_history |-> infractions_history,
     kitchen_size |-> kitchen_size, region |-> region,
     inspection_date |-> inspection_date]

BaseFactors == Factors(Sushi, 10, 2, 35, Str_Montreal, None)

\* the base request and its variations, one field at a time
FactorInputs ==
    {BaseFactors}
    \cup {[BaseFactors EXCEPT !.cuisine_type = c] :
            c \in {Str_sushi, Other, Str_Nonexistent, BBQ}}
    \cup {[BaseFactors EXCEPT !.staff_count = 16],
          [BaseFactors EXCEPT !.infractions_history = 0],
          [BaseFactors EXCEPT !.infractions_history = 7],
          [BaseFactors EXCEPT !.kitchen_size = 50],
          [BaseFactors EXCEPT !.region = Str_Laval]}
    \cup {[BaseFactors EXCEPT !.inspection_date = Some(t)] : t \in InspectionDates}
    \cup {Factors(Str_Nonexistent, 3, 0, 15, Str_Paris, Some(20230601))}

PredictInputs ==
    {BaseFactors, Factors(Str_Nonexistent, 3, 0, 15, Str_Paris, Some(20230601))}

LearnRow(cuisine_type, risk_level) ==
    [cuisine_type |-> cuisine_type, risk_level |-> risk_level]

TrainingRow(cuisine_type, staff_count, infractions_history, kitchen_size, region, actual_risk_level) ==
    [cuisine_type |-> cuisine_type, staff_count |-> staff_count,
     infractions_history |-> infractions_history,
     kitchen_size |-> kitchen_size, region |-> region,
     actual_risk_level |-> actual_risk_level]

Datasets ==
    {DataFrame({"cuisine_type", "risk_level"},
        <<LearnRow(Sushi, "High"), LearnRow(Sushi, "Medium"),
          LearnRow(Other, "Low")>>),
     DataFrame({"cuisine_type", "risk_level"},
        <<LearnRow(Str_sushi, "Low"), LearnRow(Str_Thai, "High")>>),
     DataFrame({"cuisine_type", "risk_level"}, <<>>),
     DataFrame({"cuisine_type"}, <<[cuisine_type |-> Sushi]>>),
     DataFrame(RequiredCols,
        <<TrainingRow(Sushi, 10, 2, 35, Str_Montreal, "High"),
          TrainingRow(FastFood, 3, 0, 15, Str_Paris, "Low")>>)}

\* training frames without the column 'region'
IncompleteDatasets ==
    {DataFrame(RequiredCols \ {"region"},
        <<[cuisine_type |-> Sushi, staff_count |-> 10, infractions_history |-> 2,
           kitchen_size |-> 35, actual_risk_level |-> "High"],
          [cuisine_type |-> FastFood, staff_count |-> 3, infractions_history |-> 0,
           kitchen_size |-> 15, actual_risk_level |-> "Low"]>>)}

---------------------------------------------------------------------------
(* The state machine.                                                      *)

Call(op, args, out) == [op |-> op, args |-> args, out |-> out]

\* no call is in progress
NoThreads == [prediction |-> None, mutation |-> None]

\* a dictionary returned by the call op and kept by the caller: its contents
\* when it was returned and now; shared says that it is the very object
\* self.prior_risk refers to
Held(op, value, shared) ==
    Some([op |-> op, at_return |-> value, contents |-> value, shared |-> shared])

\* self.prior_risk[...] = v: an item assignment writes to the object, which a
\* caller holding it sees
Written(h, prior_risk) ==
    IF h = None THEN h
    ELSE IF h[1].shared THEN Some([h[1] EXCEPT !.contents = prior_risk])
    ELSE h

\* self.prior_risk = another object (or a new engine): the object held is
\* no longer the engine's
Rebound(h) ==
    IF h = None THEN h ELSE Some([h[1] EXCEPT !.shared = FALSE])

\* engine = ConditionalProbabilityEngine(enable), adapter = RegulationAdapter()
Start(enable_temporal_adjustment, source) ==
    /\ regulations_json = source
    /\ engine = NewEngine(enable_temporal_adjustment, source)
    /\ adapter = NewAdapter(source)
    /\ file = NoFile
    /\ saved = None
    /\ now \in ClockValues
    /\ threads = NoThreads
    /\ handed = None
    /\ result = Call("__init__", enable_temporal_adjustment, Return(None))

Init ==
    \E enable \in BOOLEAN, source \in RegulationSources : Start(enable, source)

\* variant: the call keeps the distribution it returns as the engine's priors
CalculateRiskProbability_caching(f) ==
    LET out == calculate_risk_probability(engine, f.cuisine_type, f.staff_count,
                   f.infractions_history, f.kitchen_size, f.region,
                   f.inspection_date)
    IN  /\ result' = Call("calculate_risk_probability", f, out)
        /\ engine' = IF Returned(out)
                     THEN [engine EXCEPT !.prior_risk = out.val]
                     ELSE engine
        /\ UNCHANGED <<adapter, regulations_json, file, saved, now, threads, handed>>

\* engine.calculate_risk_probability(**f)
CalculateRiskProbability(f) ==
    /\ result' = Call("calculate_risk_probability", f,
            calculate_risk_probability(engine, f.cuisine_type, f.staff_count,
                f.infractions_history, f.kitchen_size, f.region,
                f.inspection_date))
    /\ UNCHANGED <<engine, adapter, regulations_json, file, saved, now,
                 threads, handed>>

\* engine.predict_risk_level(**f)
PredictRiskLevel(f) ==
    /\ result' = Call("predict_risk_level", f,
            predict_risk_level(engine, f.cuisine_type, f.staff_count,
                f.infractions_history, f.kitchen_size, f.region,
                f.inspection_date))
    /\ UNCHANGED <<engine, adapter, regulations_json, file, saved, now,
                 threads, handed>>

\* engine.predict_with_confidence(**f)
PredictWithConfidence(f) ==
    /\ result' = Call("predict_with_confidence", f,
            predict_with_confidence(engine, f.cuisine_type, f.staff_count,
                f.infractions_history, f.kitchen_size, f.region,
                f.inspection_date))
    /\ UNCHANGED <<engine, adapter, regulations_json, file, saved, now,
                 threads, handed>>

\* engine.learn_cuisine_probabilities(data)
LearnCuisineProbabilities(data) ==
    /\ engine' = learn_cuisine_probabilities(engine, data)
    /\ result' = Call("learn_cuisine_probabilities", data, Return(None))
    /\ UNCHANGED <<adapter, regulations_json, file, saved, now, threads, handed>>

\* engine.calibrate_model(data)
CalibrateModel(data) ==
    /\ LET Done(r) == /\ engine' = r[2]
                      /\ result' = Call("calibrate_model", data, r[1])
       IN  Done(calibrate_model(engine, data))
    /\ UNCHANGED <<adapter, regulations_json, file, saved, now, threads, handed>>

\* engine.update_priors(data)
UpdatePriors(data) ==
    /\ LET r == update_priors(engine, data)
       IN  /\ engine' = r[2]
           /\ handed' = Written(handed, r[2].prior_risk)
           /\ result' = Call("update_priors", data, r[1])
    /\ UNCHANGED <<adapter, regulations_json, file, saved, now, threads>>

\* engine.cross_validate(data, n_folds), KFold drawing the order shuffle
CrossValidate(data, n_folds, shuffle) ==
    /\ LET Done(r) ==
            /\ engine' = r[2]
            /\ result' = Call("cross_validate",
                    [data |-> data, n_folds |-> n_folds, shuffle |-> shuffle,
                     before |-> engine], r[1])
       IN  Done(cross_validate(engine, data, n_folds, shuffle))
    /\ UNCHANGED <<adapter, regulations_json, file, saved, now, threads, handed>>

AddArgs(id, effective_date, impact_weight) ==
    [regulation_id |-> id, name |-> "Test Regulation",
     effective_date |-> effective_date, description |-> "Test description",
     impact_weight |-> impact_weight]

\* engine.regulation_adapter.add_regulation(...)
EngineAddRegulation(id, effective_date, impact_weight) ==
    /\ engine.regulation_adapter # None
    /\ LET a == AddArgs(id, effective_date, impact_weight)
           r == add_regulation(engine.regulation_adapter[1], a.regulation_id,
                    a.name, a.effective_date, a.description, a.impact_weight)
       IN  /\ engine' = [engine EXCEPT !.regulation_adapter = Some(r[2])]
           /\ result' = Call("add_regulation", a, Return(r[1]))
    /\ UNCHANGED <<adapter, regulations_json, file, saved, now, threads, handed>>

Next ==
    \/ \E f \in FactorInputs : CalculateRiskProbability(f)
    \/ \E f \in PredictInputs : PredictRiskLevel(f)
    \/ \E f \in PredictInputs : PredictWithConfidence(f)
    \/ \E data \in Datasets : LearnCuisineProbabilities(data)
    \/ \E data \in Datasets : CalibrateModel(data)
    \/ \E data \in Datasets : UpdatePriors(data)
    \/ \E data \in IncompleteDatasets : \E shuffle \in Shuffles(Len(data.rows)) :
            CrossValidate(data, 2, shuffle)
    \/ \E d \in {Str_2018_5_3, Str_invalid_date}, w \in {Q(1, 2), Q(5, 1)} :
            EngineAddRegulation("TEST-001", d, w)

Spec == Init /\ [][Next]_vars

---------------------------------------------------------------------------
(* The adapter used on its own.                                            *)

\* adapter.add_regulation(...)
AddRegulation(id, effective_date, impact_weight) ==
    /\ LET a == AddArgs(id, effective_date, impact_weight)
           r == add_regulation(adapter, a.regulation_id, a.name,
                    a.effective_date, a.description, a.impact_weight)
       IN  /\ adapter' = r[2]
           /\ result' = Call("add_regulation", a, Return(r[1]))
    /\ UNCHANGED <<engine, regulations_json, file, saved, now, threads, handed>>

\* adapter.adjust_risk_probabilities(probabilities, inspection_date)
AdjustRiskProbabilities(probabilities, inspection_date) ==
    /\ result' = Call("adjust_risk_probabilities",
            [probabilities |-> probabilities, inspection_date |-> inspection_date],
            adjust_risk_probabilities(adapter, probabilities, inspection_date))
    /\ UNCHANGED <<engine, adapter, regulations_json, file, saved, now,
                 threads, handed>>

\* adapter.calculate_temporal_weight(inspection_date, base_risk_score)
CalculateTemporalWeight(inspection_date, base_risk_score) ==
    /\ result' = Call("calculate_temporal_weight",
            [inspection_date |-> inspection_date,
             base_risk_score |-> base_risk_score],
            calculate_temporal_weight(adapter, inspection_date, base_risk_score))
    /\ UNCHANGED <<engine, adapter, regulations_json, file, saved, now,
                 threads, handed>>

BaseScores == {Q(1, 100), Q(65, 100), Q(99, 100)}

\* adapter.get_applicable_regulations(inspection_date)
GetApplicableRegulations(inspection_date) ==
    /\ result' = Call("get_applicable_regulations", inspection_date,
            Return(get_applicable_regulations(adapter, inspection_date)))
    /\ UNCHANGED <<engine, adapter, regulations_json, file, saved, now,
                 threads, handed>>

\* adapter.get_regulation_by_id(regulation_id)
GetRegulationById(id) ==
    /\ result' = Call("get_regulation_by_id", id,
            get_regulation_by_id(adapter, id))
    /\ UNCHANGED <<engine, adapter, regulations_json, file, saved, now,
                 threads, handed>>

RegulationIds == {"REG-001", "TEST-001"}

DateStrings == {Str_2024_01_01, Str_2018_5_3, Str_2023_02_30, Str_invalid_date}

ImpactWeightInputs == {Q(1, 2), Q(4, 1), Q(5, 1)}

AdapterDates == InspectionDates \cup ClockValues

InitAdapter == \E source \in RegulationSources : Start(FALSE, source)

NextAdapter ==
    \/ \E id \in RegulationIds, d \in DateStrings, w \in ImpactWeightInputs :
            AddRegulation(id, d, w)
    \/ \E p \in DistInputs, t \in AdapterDates : AdjustRiskProbabilities(p, t)
    \/ \E t \in AdapterDates : GetApplicableRegulations(t)
    \/ \E id \in RegulationIds : GetRegulationById(id)
    \/ \E t \in AdapterDates, base \in BaseScores : CalculateTemporalWeight(t, base)

SpecAdapter == InitAdapter /\ [][NextAdapter]_vars

---------------------------------------------------------------------------
(* Persistence: engines are constructed, trained, saved and loaded.        *)

\* engine = ConditionalProbabilityEngine(enable_temporal_adjustment)
Construct(enable_temporal_adjustment) ==
    /\ engine' = NewEngine(enable_temporal_adjustment, regulations_json)
    /\ handed' = Rebound(handed)
    /\ result' = Call("__init__", enable_temporal_adjustment, Return(None))
    /\ UNCHANGED <<adapter, regulations_json, file, saved, now, threads>>

\* engine.save_model(filepath); saved remembers the engine that wrote the file
SaveModel(writable) ==
    /\ LET r == save_model(engine, file, writable)
       IN  /\ file' = r[2]
           /\ saved' = IF r[1] THEN Some(engine) ELSE saved
           /\ result' = Call("save_model", writable, Return(r[1]))
    /\ UNCHANGED <<engine, adapter, regulations_json, now, threads, handed>>

\* a freshly constructed engine, whatever its temporal setting
IsFresh(self) ==
    \E enable \in BOOLEAN : self = NewEngine(enable, regulations_json)

\* engine.load_model(filepath)
LoadModel ==
    /\ LET r == load_model(engine, file)
       IN  /\ engine' = r[2]
           /\ result' = Call("load_model",
                            [fresh |-> IsFresh(engine), before |-> engine],
                            Return(r[1]))
    /\ handed' = IF file.kind = "pickle"
                 THEN IF "prior_risk" \in DOMAIN file.model_data
                      THEN Rebound(handed) ELSE handed
                 ELSE handed
    /\ UNCHANGED <<adapter, regulations_json, file, saved, now, threads>>

\* the file is replaced by a blob of an older version, without the field k
OlderVersionBlob(k) ==
    /\ file.kind = "pickle"
    /\ DOMAIN file.model_data = DOMAIN ModelData(engine)
    /\ file' = Pickle([x \in (DOMAIN file.model_data) \ {k} |->
                            file.model_data[x]])
    /\ saved' = None
    /\ result' = Call("older_version_blob", k, Return(None))
    /\ UNCHANGED <<engine, adapter, regulations_json, now, threads, handed>>

\* the file is replaced by one that cannot be unpickled
UnreadableFile ==
    /\ file' = Unreadable
    /\ saved' = None
    /\ result' = Call("unreadable_file", None, Return(None))
    /\ UNCHANGED <<engine, adapter, regulations_json, now, threads, handed>>

PersistDatasets ==
    {DataFrame({"cuisine_type", "risk_level"},
        <<LearnRow(Sushi, "High"), LearnRow(Sushi, "Medium"),
          LearnRow(Other, "Low")>>),
     DataFrame({"cuisine_type"}, <<[cuisine_type |-> Sushi]>>)}

OlderVersionFields ==
    {"prior_risk", "staff_thresholds", "infraction_weights", "version"}

InitPersist == \E enable \in BOOLEAN : Start(enable, StandardSource)

NextPersist ==
    \/ \E enable \in BOOLEAN : Construct(enable)
    \/ \E data \in PersistDatasets : LearnCuisineProbabilities(data)
    \/ \E data \in PersistDatasets : UpdatePriors(data)
    \/ \E writable \in BOOLEAN : SaveModel(writable)
    \/ LoadModel
    \/ \E k \in OlderVersionFields : OlderVersionBlob(k)
    \/ UnreadableFile
    \/ \E f \in PredictInputs : CalculateRiskProbability(f)
    \/ \E f \in PredictInputs : PredictRiskLevel(f)

SpecPersist == InitPersist /\ [][NextPersist]_vars

\* pd.crosstab(data['cuisine_type'], data['risk_level'], normalize='index'):
\* one row per cuisine value and one column per risk_level value that occur
\* in the data, each row divided by its total
crosstab(rows) ==
    [c \in {rows[i].cuisine_type : i \in 1..Len(rows)} |->
        [label \in {rows[i].risk_level : i \in 1..Len(rows)} |->
            Q(CountBoth(rows, "cuisine_type", c, "risk_level", label),
              Count(rows, "cuisine_type", c))]]

\* get_probability_matrix: the frame returned, a function from the index
\* values to the rows; pd.DataFrame() is the frame without index or columns
get_probability_matrix(data) ==
    IF "cuisine_type" \notin data.columns \/ "risk_level" \notin data.columns
    THEN Return(<<>>)
    ELSE Return(crosstab(data.rows))

---------------------------------------------------------------------------
(* The engine's computations on historical datasets.                       *)

\* engine.calculate_conditional_probability(event_a, event_b, data)
CalculateConditionalProbability(event_a, event_b, data) ==
    /\ result' = Call("calculate_conditional_probability",
            [event_a |-> event_a, event_b |-> event_b, data |-> data],
            calculate_conditional_probability(event_a, event_b, data,
                "risk_level", "cuisine_type"))
    /\ UNCHANGED <<engine, adapter, regulations_json, file, saved, now,
                 threads, handed>>

\* engine.calculate_joint_probability(events, data)
CalculateJointProbability(events, data) ==
    /\ result' = Call("calculate_joint_probability",
            [events |-> events, data |-> data],
            calculate_joint_probability(events, data))
    /\ UNCHANGED <<engine, adapter, regulations_json, file, saved, now,
                 threads, handed>>

\* engine.calculate_bayes_theorem(hypothesis, evidence, data)
CalculateBayesTheorem(hypothesis, evidence, data) ==
    /\ result' = Call("calculate_bayes_theorem",
            [hypothesis |-> hypothesis, evidence |-> evidence, data |-> data],
            calculate_bayes_theorem(hypothesis, evidence, data,
                "risk_level", "cuisine_type"))
    /\ UNCHANGED <<engine, adapter, regulations_json, file, saved, now,
                 threads, handed>>

\* engine.get_probability_matrix(data)
GetProbabilityMatrix(data) ==
    /\ result' = Call("get_probability_matrix", data,
                      get_probability_matrix(data))
    /\ UNCHANGED <<engine, adapter, regulations_json, file, saved, now,
                 threads, handed>>

ValidationDatasets ==
    {DataFrame(RequiredCols,
        <<TrainingRow(Sushi, 10, 2, 35, Str_Montreal, "High"),
          TrainingRow(FastFood, 3, 0, 15, Str_Paris, "Low"),
          TrainingRow(Sushi, 20, 4, 60, Str_Laval, "Medium")>>)}
     \cup IncompleteDatasets

FoldCounts == 1..3

\* pd.DataFrame(): no rows and no columns
EmptyFrame == DataFrame({}, <<>>)

EmpiricalDatasets ==
    {EmptyFrame,
     DataFrame({"cuisine_type", "risk_level"}, <<>>),
     DataFrame({"cuisine_type", "risk_level"},
        <<LearnRow(Sushi, "High"), LearnRow(Sushi, "Medium"),
          LearnRow(Other, "Low")>>)}

RiskEvents == {"High", "Critical"}

CuisineEvents == {Sushi, Str_Nonexistent}

JointEvents ==
    {<<<<"cuisine_type", Sushi>>, <<"risk_level", "High">>>>,
     <<<<"cuisine_type", Other>>, <<"risk_level", "High">>>>,
     <<<<"cuisine_type", Str_Nonexistent>>>>,
     <<<<"region", Str_Montreal>>>>,
     <<>>}

InitData == Start(TRUE, <<>>)

NextData ==
    \/ \E a \in RiskEvents, b \in CuisineEvents, data \in EmpiricalDatasets :
            CalculateConditionalProbability(a, b, data)
    \/ \E events \in JointEvents, data \in EmpiricalDatasets :
            CalculateJointProbability(events, data)
    \/ \E h \in RiskEvents, e \in CuisineEvents, data \in EmpiricalDatasets :
            CalculateBayesTheorem(h, e, data)
    \/ \E data \in ValidationDatasets, n_folds \in FoldCounts :
            \E shuffle \in Shuffles(Len(data.rows)) :
                CrossValidate(data, n_folds, shuffle)
    \/ \E data \in Datasets : GetProbabilityMatrix(data)
    \/ EngineAddRegulation("TEST-001", Str_2018_5_3, Q(5, 1))

SpecData == InitData /\ [][NextData]_vars

---------------------------------------------------------------------------
(* The life of the cuisine table: learning, evaluation and persistence.    *)

TableDatasets ==
    {DataFrame({"cuisine_type", "risk_level"},
        <<LearnRow(Str_sushi, "Low"), LearnRow(Str_Thai, "High")>>),
     DataFrame({"cuisine_type"}, <<[cuisine_type |-> Sushi]>>)}

TrainingDatasets ==
    {DataFrame(RequiredCols,
        <<TrainingRow(Sushi, 10, 2, 35, Str_Montreal, "High"),
          TrainingRow(FastFood, 3, 0, 15, Str_Paris, "Low")>>)}

InitTable == Start(FALSE, StandardSource)

NextTable ==
    \/ \E enable \in BOOLEAN : Construct(enable)
    \/ \E data \in TableDatasets : LearnCuisineProbabilities(data)
    \/ \E data \in TableDatasets : UpdatePriors(data)
    \/ \E data \in TrainingDatasets : CalibrateModel(data)
    \/ \E data \in TrainingDatasets : \E shuffle \in Shuffles(Len(data.rows)) :
            CrossValidate(data, 2, shuffle)
    \/ \E writable \in BOOLEAN : SaveModel(writable)
    \/ LoadModel

SpecTable == InitTable /\ [][NextTable]_vars

---------------------------------------------------------------------------
(* Dictionaries handed to a caller, who keeps them while the engine goes   *)
(* on being used.                                                          *)

\* engine.get_model_summary()
GetModelSummary ==
    /\ result' = Call("get_model_summary", None,
                      Return(get_model_summary(engine)))
    /\ UNCHANGED <<engine, adapter, regulations_json, file, saved, now,
                 threads, handed>>

\* the caller keeps the distribution the last call returned: the dictionary
\* calculate_risk_probability built, or the summary's prior_risk_distribution
Keep ==
    /\ result.op \in {"calculate_risk_probability", "get_model_summary"}
    /\ Returned(result.out)
    /\ handed' = IF result.op = "get_model_summary"
                 THEN Held(result.op, result.out.val.prior_risk_distribution,
                           TRUE)
                 ELSE Held(result.op, result.out.val, FALSE)
    /\ UNCHANGED <<engine, adapter, regulations_json, file, saved, now,
                 threads, result>>

InitHanded == Start(FALSE, StandardSource)

NextHanded ==
    \/ \E f \in PredictInputs : CalculateRiskProbability(f)
    \/ GetModelSummary
    \/ Keep
    \/ \E data \in PersistDatasets : UpdatePriors(data)
    \/ \E data \in PersistDatasets : LearnCuisineProbabilities(data)
    \/ SaveModel(TRUE)
    \/ LoadModel

SpecHanded == InitHanded /\ [][NextHanded]_vars

---------------------------------------------------------------------------
(* The adjustment factors, on an engine without temporal adjustment.       *)

\* engine._calculate_kitchen_factor(kitchen_size)
CalculateKitchenFactor(kitchen_size) ==
    /\ result' = Call("_calculate_kitchen_factor", kitchen_size,
                      Return(_calculate_kitchen_factor(kitchen_size)))
    /\ UNCHANGED <<engine, adapter, regulations_json, file, saved, now,
                 threads, handed>>

KitchenSizes == 1..100

\* requests over every combination of the four factors' ranges
FactorGrid ==
    {Factors(c, staff_count, infractions_history, kitchen_size, region, None) :
        c \in {Sushi, Str_sushi, Str_Nonexistent},
        staff_count \in {3, 10, 16},
        infractions_history \in {0, 2, 9},
        kitchen_size \in {15, 35, 50, 60},
        region \in {Str_Montreal, Str_Laval, Str_Paris}}

InitFactors == Start(FALSE, StandardSource)

NextFactors ==
    \/ \E kitchen_size \in KitchenSizes : CalculateKitchenFactor(kitchen_size)
    \/ \E f \in FactorGrid : CalculateRiskProbability(f)
    \/ \E data \in PersistDatasets : LearnCuisineProbabilities(data)

SpecFactors == InitFactors /\ [][NextFactors]_vars

---------------------------------------------------------------------------
(* Two threads on one engine: one makes a prediction, the other a mutating *)
(* call.  The code takes no lock, so the threads interleave between the    *)
(* statements that read or write an attribute of the engine.               *)

\* data[column].unique(): the values in order of first appearance
UniqueSeq(rows, column) ==
    LET First(i) == \A j \in 1..(i - 1) : rows[j][column] # rows[i][column]
        firsts == SelectSeq([i \in 1..Len(rows) |-> i], First)
    IN  [k \in 1..Len(firsts) |-> rows[firsts[k]][column]]

Prediction == threads.prediction[1]

Mutation == threads.mutation[1]

\* thread 1 is outside calculate_risk_probability
PredictionIdle ==
    IF threads.prediction = None THEN TRUE ELSE Prediction.pc = "done"

PredictionAt(pc) == threads.prediction # None /\ Prediction.pc = pc

MutationAt(op) == threads.mutation # None /\ Mutation.op = op

\* the versions of the engine state between which a call that starts now runs
CurrentVersions ==
    IF threads.mutation = None THEN {engine}
    ELSE {Mutation.before, Mutation.after}

\* a mutating call starts: a prediction in progress now overlaps it
Overlapped(after) ==
    IF PredictionIdle
    THEN threads.prediction
    ELSE Some([Prediction EXCEPT !.versions = @ \cup {after}])

\* thread 1 enters calculate_risk_probability(**f)
BeginPrediction(f) ==
    /\ PredictionIdle
    /\ threads' = [threads EXCEPT !.prediction =
            Some([pc |-> "membership", f |-> f, found |-> FALSE,
                  cuisine_probs |-> Raise("unset"),
                  infraction_weights |-> <<>>,
                  temporal_adjustment_enabled |-> FALSE,
                  out |-> Raise("unset"),
                  versions |-> CurrentVersions])]
    /\ UNCHANGED <<engine, adapter, regulations_json, file, saved, now, result, handed>>

\* _get_cuisine_probability: cuisine_type in self.cuisine_risk_probs
PredictionMembership ==
    /\ PredictionAt("membership")
    /\ threads' = [threads EXCEPT !.prediction = Some([Prediction EXCEPT
            !.pc = "item",
            !.found = title(strip(Prediction.f.cuisine_type))
                        \in DOMAIN engine.cuisine_risk_probs])]
    /\ UNCHANGED <<engine, adapter, regulations_json, file, saved, now, result, handed>>

\* _get_cuisine_probability: self.cuisine_risk_probs[cuisine_type] when the
\* key was found, self.cuisine_risk_probs['Other'] otherwise
PredictionItem ==
    /\ PredictionAt("item")
    /\ LET key == IF Prediction.found
                  THEN title(strip(Prediction.f.cuisine_type)) ELSE Other
           read == IF key \in DOMAIN engine.cuisine_risk_probs
                   THEN Return(engine.cuisine_risk_probs[key])
                   ELSE Raise("KeyError")
       IN  threads' = [threads EXCEPT !.prediction = Some([Prediction EXCEPT
                !.pc = IF Returned(read) THEN "infraction" ELSE "done",
                !.cuisine_probs = read,
                !.out = read])]
    /\ UNCHANGED <<engine, adapter, regulations_json, file, saved, now, result, handed>>

\* _calculate_infraction_factor: self.infraction_weights.get(infractions, 0.0)
PredictionInfraction ==
    /\ PredictionAt("infraction")
    /\ threads' = [threads EXCEPT !.prediction = Some([Prediction EXCEPT
            !.pc = "temporal",
            !.infraction_weights = engine.infraction_weights])]
    /\ UNCHANGED <<engine, adapter, regulations_json, file, saved, now, result, handed>>

\* the engine as the prediction has read it: the table entry and the weights
\* it read earlier, the temporal flag and the adapter as they are now
PredictionView ==
    [engine EXCEPT
        !.cuisine_risk_probs =
            [c \in {title(strip(Prediction.f.cuisine_type)), Other} |->
                Prediction.cuisine_probs.val],
        !.infraction_weights = Prediction.infraction_weights]

\* the factors are combined, self.temporal_adjustment_enabled is read and
\* the call returns
PredictionReturn ==
    /\ PredictionAt("temporal")
    /\ LET f == Prediction.f
           Done(out) ==
               /\ threads' = [threads EXCEPT !.prediction =
                      Some([Prediction EXCEPT !.pc = "done", !.out = out,
                          !.temporal_adjustment_enabled =
                              engine.temporal_adjustment_enabled])]
               /\ result' = Call("calculate_risk_probability", f, out)
       IN  Done(calculate_risk_probability(PredictionView, f.cuisine_type,
                    f.staff_count, f.infractions_history, f.kitchen_size,
                    f.region, f.inspection_date))
    /\ UNCHANGED <<engine, adapter, regulations_json, file, saved, now, handed>>

\* thread 2 enters learn_cuisine_probabilities(data), data with both columns
BeginLearn(data) ==
    /\ threads.mutation = None
    /\ {"cuisine_type", "risk_level"} \subseteq data.columns
    /\ LET after == learn_cuisine_probabilities(engine, data)
       IN  threads' = [prediction |-> Overlapped(after),
                       mutation |-> Some([op |-> "learn_cuisine_probabilities",
                            data |-> data,
                            todo |-> UniqueSeq(data.rows, "cuisine_type"),
                            before |-> engine, after |-> after])]
    /\ UNCHANGED <<engine, adapter, regulations_json, file, saved, now, result, handed>>

\* one pass of the loop: self.cuisine_risk_probs[cuisine] = {...}
LearnStep ==
    /\ MutationAt("learn_cuisine_probabilities")
    /\ Mutation.todo # <<>>
    /\ LET cuisine == Head(Mutation.todo)
           learned == Frequencies(Where(Mutation.data.rows, "cuisine_type",
                                        cuisine))
       IN  engine' = [engine EXCEPT !.cuisine_risk_probs =
                [c \in (DOMAIN @) \cup {cuisine} |->
                    IF c = cuisine THEN learned ELSE @[c]]]
    /\ threads' = [threads EXCEPT !.mutation =
            Some([Mutation EXCEPT !.todo = Tail(@)])]
    /\ UNCHANGED <<adapter, regulations_json, file, saved, now, result, handed>>

\* the loop is over and the call returns
LearnReturn ==
    /\ MutationAt("learn_cuisine_probabilities")
    /\ Mutation.todo = <<>>
    /\ threads' = [threads EXCEPT !.mutation = None]
    /\ result' = Call("learn_cuisine_probabilities", Mutation.data, Return(None))
    /\ UNCHANGED <<engine, adapter, regulations_json, file, saved, now, handed>>

\* the attributes load_model assigns, in the order of its assignments
LoadedFields ==
    <<"prior_risk", "cuisine_risk_probs", "staff_thresholds", "infraction_weights">>

\* thread 2 enters load_model(filepath) and unpickles a complete blob
BeginLoad ==
    /\ threads.mutation = None
    /\ file.kind = "pickle"
    /\ \A i \in 1..Len(LoadedFields) : LoadedFields[i] \in DOMAIN file.model_data
    /\ LET after == load_model(engine, file)[2]
       IN  threads' = [prediction |-> Overlapped(after),
                       mutation |-> Some([op |-> "load_model",
                            data |-> file.model_data, todo |-> LoadedFields,
                            before |-> engine, after |-> after])]
    /\ UNCHANGED <<engine, adapter, regulations_json, file, saved, now, result, handed>>

\* one assignment: self.<field> = model_data['<field>']
LoadStep ==
    /\ MutationAt("load_model")
    /\ Mutation.todo # <<>>
    /\ engine' = [engine EXCEPT ![Head(Mutation.todo)] =
                        Mutation.data[Head(Mutation.todo)]]
    /\ threads' = [threads EXCEPT !.mutation =
            Some([Mutation EXCEPT !.todo = Tail(@)])]
    /\ handed' = IF Head(Mutation.todo) = "prior_risk"
                 THEN Rebound(handed) ELSE handed
    /\ UNCHANGED <<adapter, regulations_json, file, saved, now, result>>

\* the four assignments are done and the call returns True
LoadReturn ==
    /\ MutationAt("load_model")
    /\ Mutation.todo = <<>>
    /\ threads' = [threads EXCEPT !.mutation = None]
    /\ result' = Call("load_model", [fresh |-> FALSE, before |-> Mutation.before],
                      Return(TRUE))
    /\ UNCHANGED <<engine, adapter, regulations_json, file, saved, now, handed>>

\* an engine that learned from history and saved itself to the model file
SavedEngine ==
    learn_cuisine_probabilities(NewEngine(FALSE, StandardSource),
        DataFrame({"cuisine_type", "risk_level"},
            <<LearnRow(Sushi, "High"), LearnRow(Sushi, "High")>>))

ConcurrentDatasets ==
    {DataFrame({"cuisine_type", "risk_level"},
        <<LearnRow(Other, "Low"), LearnRow(Str_Thai, "High")>>)}

ConcurrentInputs ==
    {Factors(Str_Thai, 10, 2, 35, Str_Montreal, None),
     Factors(Sushi, 10, 2, 35, Str_Montreal, None)}

InitConcurrent ==
    /\ now \in ClockValues
    /\ regulations_json = StandardSource
    /\ engine \in {NewEngine(enable, StandardSource) : enable \in BOOLEAN}
    /\ adapter = NewAdapter(StandardSource)
    /\ file = Pickle(ModelData(SavedEngine))
    /\ saved = Some(SavedEngine)
    /\ threads = NoThreads
    /\ handed = None
    /\ result = Call("__init__", engine.temporal_adjustment_enabled, Return(None))

NextConcurrent ==
    \/ \E f \in ConcurrentInputs : BeginPrediction(f)
    \/ PredictionMembership
    \/ PredictionItem
    \/ PredictionInfraction
    \/ PredictionReturn
    \/ \E data \in ConcurrentDatasets : BeginLearn(data)
    \/ LearnStep
    \/ LearnReturn
    \/ BeginLoad
    \/ LoadStep
    \/ LoadReturn

SpecConcurrent == InitConcurrent /\ [][NextConcurrent]_vars

---------------------------------------------------------------------------
(* update_priors on one thread while another thread saves the model or     *)
(* asks for its summary.  The other thread's call is taken whole, between  *)
(* two statements of update_priors.                                        *)

\* thread 2 enters update_priors(new_data), finds the column and takes
\* total = len(new_data)
BeginUpdatePriors(new_data) ==
    /\ threads.mutation = None
    /\ "risk_level" \in new_data.columns
    /\ Len(new_data.rows) > 0
    /\ threads' = [threads EXCEPT !.mutation =
            Some([op |-> "update_priors", data |-> new_data,
                  todo |-> RiskLevels, before |-> engine,
                  after |-> update_priors(engine, new_data)[2]])]
    /\ UNCHANGED <<engine, adapter, regulations_json, file, saved, now, handed,
                 result>>

\* one statement: self.prior_risk[label] = len(...) / total
UpdatePriorsStep ==
    /\ MutationAt("update_priors")
    /\ Mutation.todo # <<>>
    /\ LET label == Head(Mutation.todo)
           written == [engine.prior_risk EXCEPT ![label] =
                           Q(Count(Mutation.data.rows, "risk_level", label),
                             Len(Mutation.data.rows))]
       IN  /\ engine' = [engine EXCEPT !.prior_risk = written]
           /\ handed' = Written(handed, written)
    /\ threads' = [threads EXCEPT !.mutation =
            Some([Mutation EXCEPT !.todo = Tail(@)])]
    /\ UNCHANGED <<adapter, regulations_json, file, saved, now, result>>

\* the three items are assigned and the call returns
UpdatePriorsReturn ==
    /\ MutationAt("update_priors")
    /\ Mutation.todo = <<>>
    /\ threads' = [threads EXCEPT !.mutation = None]
    /\ result' = Call("update_priors", Mutation.data, Return(None))
    /\ UNCHANGED <<engine, adapter, regulations_json, file, saved, now, handed>>

PriorDatasets ==
    {DataFrame({"cuisine_type", "risk_level"},
        <<LearnRow(Sushi, "High"), LearnRow(Sushi, "Medium"),
          LearnRow(Other, "Low")>>),
     DataFrame({"cuisine_type", "risk_level"},
        <<LearnRow(Sushi, "High"), LearnRow(Sushi, "High")>>)}

InitUpdate == Start(FALSE, StandardSource)

NextUpdate ==
    \/ \E new_data \in PriorDatasets : BeginUpdatePriors(new_data)
    \/ UpdatePriorsStep
    \/ UpdatePriorsReturn
    \/ SaveModel(TRUE)
    \/ GetModelSummary

SpecUpdate == InitUpdate /\ [][NextUpdate]_vars

---------------------------------------------------------------------------
(* Properties.                                                             *)

InUnit(q) == QLe(QZero, q) /\ QLe(q, QOne)

\* three values, each in [0, 1], summing to 1
IsDistribution(d) ==
    /\ DOMAIN d = {"Low", "Medium", "High"}
    /\ InUnit(d.Low) /\ InUnit(d.Medium) /\ InUnit(d.High)
    /\ SumValues(d) = QOne

ValidFactors(f) ==
    f.staff_count >= 0 /\ f.infractions_history >= 0 /\ f.kitchen_size > 0

\* the last call was calculate_risk_probability
CalcDone == result.op = "calculate_risk_probability"

\* the same request with another infraction count, on the current engine
WithInfractions(f, n) ==
    calculate_risk_probability(engine, f.cuisine_type, f.staff_count, n,
        f.kitchen_size, f.region, f.inspection_date)

\* C1: for valid RiskFactors, in every reachable engine state,
\* calculate_risk_probability returns the keys Low, Medium, High with each
\* value in [0, 1] and the three values summing to 1.
C1_DistributionValid ==
    (CalcDone /\ ValidFactors(result.args))
        => (Returned(result.out) /\ IsDistribution(result.out.val))

\* the ModelState fields of an engine
ModelState(self) ==
    [prior_risk |-> self.prior_risk,
     cuisine_risk_probs |-> self.cuisine_risk_probs,
     staff_thresholds |-> self.staff_thresholds,
     infraction_weights |-> self.infraction_weights,
     temporal_adjustment_enabled |-> self.temporal_adjustment_enabled]

\* both calls on one engine for one request
Predictions(self, f) ==
    <<calculate_risk_probability(self, f.cuisine_type, f.staff_count,
          f.infractions_history, f.kitchen_size, f.region, f.inspection_date),
      predict_risk_level(self, f.cuisine_type, f.staff_count,
          f.infractions_history, f.kitchen_size, f.region, f.inspection_date)>>

\* a freshly constructed engine has just loaded the file another engine saved
RoundTripDone ==
    /\ result.op = "load_model"
    /\ result.out.val
    /\ result.args.fresh
    /\ saved # None

\* C2: after E.save_model(f) and F.load_model(f) on a freshly constructed F,
\* calculate_risk_probability and predict_risk_level return on F what they
\* return on E, for every request.
C2_RoundTrip ==
    RoundTripDone =>
        \A f \in FactorInputs : Predictions(engine, f) = Predictions(saved[1], f)

\* C3: when load_model returns False, every ModelState field of the engine is
\* what it was before the call.
C3_LoadAtomic ==
    (result.op = "load_model" /\ ~result.out.val)
        => ModelState(engine) = ModelState(result.args.before)

\* no record of the adapter is in force on the date
NoneApplicable(self, date) ==
    \A i \in 1..Len(self.regulations) :
        self.regulations[i].effective_date_obj > date

AdjustDone == result.op = "adjust_risk_probabilities"

\* C4: adjust_risk_probabilities(d, t) returns d unchanged when no regulation
\* record has effective_date <= t.
C4_TemporalIdentity ==
    (AdjustDone /\ NoneApplicable(adapter, result.args.inspection_date))
        => result.out = Return(result.args.probabilities)

\* the adapter holds records, none of them in force on the date of the call
C4_Witness ==
    /\ AdjustDone
    /\ Len(adapter.regulations) > 0
    /\ NoneApplicable(adapter, result.args.inspection_date)
    /\ Returned(result.out)

InfractionCounts == 0..8

C6_StrictIncrease ==
    (/\ CalcDone
     /\ Returned(result.out)
     /\ ~engine.temporal_adjustment_enabled
     /\ result.args.infractions_history = 0)
        => /\ Returned(WithInfractions(result.args, 4))
           /\ QLt(result.out.val.High, WithInfractions(result.args, 4).val.High)

PredictionOps == {"calculate_risk_probability", "predict_risk_level"}

C8_UnknownFallback ==
    (/\ CalcDone
     /\ title(strip(result.args.cuisine_type))
            \notin DOMAIN engine.cuisine_risk_probs)
        => /\ Returned(result.out)
           /\ result.out =
                Predictions(engine, [result.args EXCEPT !.cuisine_type = Other])[1]

\* the impact weights of the records in force on the date are all positive
PositiveWeights(self, date) ==
    \A i \in 1..Len(self.regulations) :
        self.regulations[i].effective_date_obj <= date
            => QLt(QZero, self.regulations[i].impact_weight)

\* C9: for an input distribution and records with positive impact_weight,
\* adjust_risk_probabilities returns three values, each >= 0, summing to 1.
C9_AdjustedValid ==
    (/\ AdjustDone
     /\ IsDistribution(result.args.probabilities)
     /\ PositiveWeights(adapter, result.args.inspection_date))
        => /\ Returned(result.out)
           /\ QLe(QZero, result.out.val.Low)
           /\ QLe(QZero, result.out.val.Medium)
           /\ QLe(QZero, result.out.val.High)
           /\ SumValues(result.out.val) = QOne

\* the date strings among the inputs that denote a calendar date
ValidDateInputs == {Str_2024_01_01, Str_2018_5_3}

\* C10: add_regulation with an id already present, or with a date that is
\* not a valid date, returns False and leaves the list unchanged; otherwise
\* it returns True and the list grows by that one record, retrievable by id.
C10_AddRegulation ==
    [][result'.op = "add_regulation" =>
        LET a == result'.args
            old == adapter.regulations
        IN  IF \/ \E i \in 1..Len(old) : old[i].id = a.regulation_id
               \/ a.effective_date \notin ValidDateInputs
            THEN result'.out = Return(FALSE) /\ adapter' = adapter
            ELSE /\ result'.out = Return(TRUE)
                 /\ Len(adapter'.regulations) = Len(old) + 1
                 /\ SubSeq(adapter'.regulations, 1, Len(old)) = old
                 /\ get_regulation_by_id(adapter', a.regulation_id) =
                        Return([id |-> a.regulation_id, name |-> a.name,
                                effective_date |-> a.effective_date,
                                description |-> a.description,
                                impact_weight |-> a.impact_weight])]_vars

\* a record was added to an adapter that already held records
C10_Witness ==
    /\ result.op = "add_regulation"
    /\ result.out = Return(TRUE)
    /\ Len(adapter.regulations) > Len(regulations_json)
    /\ Len(regulations_json) > 0
    /\ Returned(get_regulation_by_id(adapter, result.args.regulation_id))

\* what the finished prediction read is what it would have read from v
ReadFrom(v) ==
    /\ Prediction.cuisine_probs =
            _get_cuisine_probability(v, Prediction.f.cuisine_type)
    /\ Returned(Prediction.cuisine_probs) =>
        /\ Prediction.infraction_weights = v.infraction_weights
        /\ Prediction.temporal_adjustment_enabled = v.temporal_adjustment_enabled

\* the prediction has returned and a mutating call ran while it was running
OverlappedPredictionDone ==
    /\ PredictionAt("done")
    /\ Cardinality(Prediction.versions) > 1

\* C11: a calculate_risk_probability call that runs concurrently with
\* load_model or learn_cuisine_probabilities on the same engine reads all its
\* state fields from one version of the state, the one before or the one
\* after the mutation.
C11_ConsistentSnapshot ==
    OverlappedPredictionDone => \E v \in Prediction.versions : ReadFrom(v)

EmpiricalOps ==
    {"calculate_conditional_probability", "calculate_joint_probability",
     "calculate_bayes_theorem"}

\* no row of the dataset of the last call satisfies what the call conditions
\* on: the conditioning event, the evidence, or all of the constraints
NoRowMatches ==
    LET a == result.args
        rows == a.data.rows
    IN  CASE result.op = "calculate_conditional_probability" ->
                "cuisine_type" \in a.data.columns
                    /\ \A i \in 1..Len(rows) : rows[i].cuisine_type # a.event_b
          [] result.op = "calculate_bayes_theorem" ->
                "cuisine_type" \in a.data.columns
                    /\ \A i \in 1..Len(rows) : rows[i].cuisine_type # a.evidence
          [] result.op = "calculate_joint_probability" ->
                /\ \A k \in 1..Len(a.events) : a.events[k][1] \in a.data.columns
                /\ \A i \in 1..Len(rows) : \E k \in 1..Len(a.events) :
                        rows[i][a.events[k][1]] # a.events[k][2]

\* C12: calculate_conditional_probability, calculate_bayes_theorem and
\* calculate_joint_probability do not raise and return 0.0 when the dataset
\* is empty (no rows, with or without columns) or holds no matching row.
C12_EmptyOrNoMatch ==
    (/\ result.op \in EmpiricalOps
     /\ Len(result.args.data.rows) = 0 \/ NoRowMatches)
        => result.out = Return(QZero)

\* a held-out accuracy over size rows: a number of hits divided by size
IsAccuracyOver(score, size) ==
    \E hits \in 0..size : score = Q(hits, size)

\* C13: for a dataset with the required columns and at least k rows,
\* cross_validate(data, n_folds=k) returns fold_scores with exactly k
\* entries, each the held-out accuracy of one fold, and mean_accuracy equal
\* to the arithmetic mean of the k entries.
C13_CrossValidate ==
    (/\ result.op = "cross_validate"
     /\ RequiredCols \subseteq result.args.data.columns
     /\ Len(result.args.data.rows) >= result.args.n_folds)
        => /\ Returned(result.out)
           /\ LET k == result.args.n_folds
                  n == Len(result.args.data.rows)
                  fold_scores == result.out.val.fold_scores
              IN  /\ Len(fold_scores) = k
                  /\ \A j \in 1..k :
                        IsAccuracyOver(fold_scores[j], FoldSize(n, k, j))
                  /\ QMul(result.out.val.mean_accuracy, Int2Q(k))
                        = QSum(fold_scores)

PredictDone == result.op = "predict_risk_level" /\ Returned(result.out)

\* the distribution the last predict_risk_level call computed
PredictedProbs == Predictions(engine, result.args)[1].val

\* C14: predict_risk_level returns a label whose probability is the maximum
\* of the computed distribution, and of the labels that tie for the maximum
\* the earliest in the order Low, Medium, High.
C14_ArgMaxEarliest ==
    PredictDone =>
        \E k \in 1..3 :
            /\ result.out.val = <<RiskLevels[k], PredictedProbs[RiskLevels[k]]>>
            /\ \A j \in 1..3 :
                    QLe(PredictedProbs[RiskLevels[j]], PredictedProbs[RiskLevels[k]])
            /\ \A j \in 1..(k - 1) :
                    QLt(PredictedProbs[RiskLevels[j]], PredictedProbs[RiskLevels[k]])

\* a prediction was returned for a distribution in which two labels tie for
\* the maximum, by an engine with temporal adjustment enabled
C14_Witness ==
    /\ PredictDone
    /\ engine.temporal_adjustment_enabled
    /\ \E k \in 1..3 :
            /\ RiskLevels[k] # result.out.val[1]
            /\ PredictedProbs[RiskLevels[k]] = result.out.val[2]

\* the tables an older version of the model file may lack
OptionalFields == {"staff_thresholds", "infraction_weights"}

\* load_model has read a pickled dictionary that has every key but some of
\* the optional ones
OlderBlobLoaded ==
    /\ result.op = "load_model"
    /\ file.kind = "pickle"
    /\ \E k \in OptionalFields : k \notin DOMAIN file.model_data
    /\ \A i \in 1..Len(LoadedFields) :
            LoadedFields[i] \in OptionalFields \cup DOMAIN file.model_data

\* C15: loading an older-version blob that lacks an optional field (no
\* staff_thresholds or no infraction_weights table) succeeds: load_model
\* returns True, applies the fields that are present and keeps the current
\* value of every missing field.
C15_OlderBlobLoads ==
    OlderBlobLoaded =>
        /\ result.out = Return(TRUE)
        /\ \A i \in 1..Len(LoadedFields) :
            engine[LoadedFields[i]] =
                IF LoadedFields[i] \in DOMAIN file.model_data
                THEN file.model_data[LoadedFields[i]]
                ELSE result.args.before[LoadedFields[i]]

\* the share of label among the rows of cuisine c
EmpiricalFrequency(rows, c, label) ==
    Q(Cardinality({i \in 1..Len(rows) :
            rows[i].cuisine_type = c /\ rows[i].risk_level = label}),
      Cardinality({i \in 1..Len(rows) : rows[i].cuisine_type = c}))

\* the cuisine values that occur in the rows
CuisinesIn(rows) == {rows[i].cuisine_type : i \in 1..Len(rows)}

\* C16: learn_cuisine_probabilities(data), data having both columns, sets
\* the table entry of each cuisine value c present in data to the empirical
\* Low/Medium/High frequencies of the rows with cuisine c, and leaves
\* unchanged every other table entry, prior_risk, the threshold tables and
\* the temporal flag.
C16_LearnFrame ==
    [][(/\ result'.op = "learn_cuisine_probabilities"
        /\ {"cuisine_type", "risk_level"} \subseteq result'.args.columns) =>
        LET rows == result'.args.rows
            old == engine.cuisine_risk_probs
            new == engine'.cuisine_risk_probs
        IN  /\ DOMAIN new = DOMAIN old \cup CuisinesIn(rows)
            /\ \A c \in CuisinesIn(rows) : \A k \in 1..3 :
                    new[c][RiskLevels[k]]
                        = EmpiricalFrequency(rows, c, RiskLevels[k])
            /\ \A c \in DOMAIN old \ CuisinesIn(rows) : new[c] = old[c]
            /\ engine' = [engine EXCEPT !.cuisine_risk_probs = new]]_vars

\* the table holds an entry learned under the key as it stands in the data
\* next to entries the data did not mention
C16_Witness ==
    /\ result.op = "learn_cuisine_probabilities"
    /\ Len(result.args.rows) > 0
    /\ "risk_level" \in result.args.columns
    /\ Str_sushi \in DOMAIN engine.cuisine_risk_probs
    /\ engine.cuisine_risk_probs[Sushi] = DefaultCuisineRiskProbs[Sushi]
    /\ engine.cuisine_risk_probs[Str_sushi].Low = QOne

\* the product of impact_weight over the records in force on the date,
\* 1 when there is none
RECURSIVE TemporalWeight(_, _)
TemporalWeight(regs, date) ==
    IF regs = <<>> THEN QOne
    ELSE IF Head(regs).effective_date_obj <= date
    THEN QMul(Head(regs).impact_weight, TemporalWeight(Tail(regs), date))
    ELSE TemporalWeight(Tail(regs), date)

\* the ids of the records in force on the date
IdsInForce(regs, date) ==
    {regs[i].id : i \in {j \in 1..Len(regs) : regs[j].effective_date_obj <= date}}

WeightDone == result.op = "calculate_temporal_weight"

\* what the last calculate_temporal_weight call was to multiply
WeightedBase ==
    QMul(result.args.base_risk_score,
         TemporalWeight(adapter.regulations, result.args.inspection_date))

\* C17: calculate_temporal_weight(date, base) returns base multiplied by the
\* product of impact_weight over exactly the records with effective_date <=
\* date, and base unchanged with an empty applied list when no record is
\* applicable.
C17_TemporalWeight ==
    WeightDone =>
        IF NoneApplicable(adapter, result.args.inspection_date)
        THEN result.out = Return(<<result.args.base_risk_score, <<>>>>)
        ELSE /\ Returned(result.out)
             /\ result.out.val[1] = WeightedBase

\* C17, amended: when records are applicable the returned score is base
\* multiplied by the product of their weights, limited to the interval
\* [0, 1], and the applied list names exactly those records; when none is
\* applicable base is returned unchanged with an empty applied list.
C17_TemporalWeightLimited ==
    WeightDone =>
        IF NoneApplicable(adapter, result.args.inspection_date)
        THEN result.out = Return(<<result.args.base_risk_score, <<>>>>)
        ELSE /\ Returned(result.out)
             /\ result.out.val[1] =
                    (IF QLt(QOne, WeightedBase) THEN QOne
                     ELSE IF QLt(WeightedBase, QZero) THEN QZero
                     ELSE WeightedBase)
             /\ {result.out.val[2][i].id : i \in 1..Len(result.out.val[2])}
                    = IdsInForce(adapter.regulations, result.args.inspection_date)
             /\ Len(result.out.val[2])
                    = Cardinality(IdsInForce(adapter.regulations,
                                             result.args.inspection_date))

\* several records apply and the weighted score exceeds 1
C17_Witness ==
    /\ WeightDone
    /\ Cardinality(IdsInForce(adapter.regulations,
                              result.args.inspection_date)) > 1
    /\ Len(adapter.regulations) > Len(result.out.val[2])
    /\ QLt(QOne, WeightedBase)
    /\ result.out.val[1] = QOne

\* C18: in every adapter state reachable by loading a regulation source and
\* then any sequence of add_regulation calls, the record list the adapter
\* consults is sorted ascending by effective_date.
C18_SortedByEffectiveDate ==
    \A i \in 1..Len(adapter.regulations) : \A j \in 1..Len(adapter.regulations) :
        i < j => adapter.regulations[i].effective_date_obj
                    <= adapter.regulations[j].effective_date_obj

\* the columns a learning or evaluation call requires of its dataset
RequiredBy(op) ==
    IF op = "learn_cuisine_probabilities" THEN {"cuisine_type", "risk_level"}
    ELSE IF op = "update_priors" THEN {"risk_level"}
    ELSE RequiredCols

LearningOps ==
    {"learn_cuisine_probabilities", "update_priors", "calibrate_model",
     "cross_validate"}

\* the dataset handed to a learning or evaluation call
DataOf(call) == IF call.op = "cross_validate" THEN call.args.data ELSE call.args

\* the call was given a dataset that lacks a column it requires
LacksRequired(call) ==
    /\ call.op \in LearningOps
    /\ ~(RequiredBy(call.op) \subseteq DataOf(call).columns)

\* C19: learn_cuisine_probabilities, update_priors, calibrate_model or
\* cross_validate given a dataset that lacks a required column changes no
\* engine state: prior_risk, cuisine_risk_probs, the threshold tables and
\* the temporal flag are the same after the call as before.
C19_MissingColumnNoChange ==
    [][LacksRequired(result') =>
        /\ ModelState(engine') = ModelState(engine)
        /\ engine' = engine]_vars

\* cross_validate was given rows without 'region' on an engine whose table
\* and priors had been learned, and left them as they were
C19_Witness ==
    /\ LacksRequired(result)
    /\ result.op = "cross_validate"
    /\ ~Returned(result.out)
    /\ result.args.before = engine
    /\ engine.cuisine_risk_probs # DefaultCuisineRiskProbs
    /\ engine.prior_risk # DefaultPriorRisk

\* the cuisine values learn_cuisine_probabilities writes an entry for: those
\* of the data, none when a column is missing
CuisinesOf(data) ==
    IF {"cuisine_type", "risk_level"} \subseteq data.columns
    THEN CuisinesIn(data.rows) ELSE {}

\* C20: get_probability_matrix(data) changes no engine state, and for each
\* cuisine c in data and each label of Low, Medium, High the matrix value at
\* (c, label) equals the value learn_cuisine_probabilities(data) stores for
\* c and that label.
C20_MatrixEqualsLearn ==
    [][result'.op = "get_probability_matrix" =>
        LET matrix == result'.out.val
            learned == learn_cuisine_probabilities(engine, result'.args)
        IN  /\ engine' = engine
            /\ Returned(result'.out)
            /\ \A c \in CuisinesOf(result'.args) : \A k \in 1..3 :
                /\ c \in DOMAIN matrix
                /\ RiskLevels[k] \in DOMAIN matrix[c]
                /\ c \in DOMAIN learned.cuisine_risk_probs
                /\ matrix[c][RiskLevels[k]]
                        = learned.cuisine_risk_probs[c][RiskLevels[k]]]_vars

\* C21: for every distribution the engine can produce in any reachable
\* state, a learned entry with all mass on one label included,
\* predict_with_confidence returns a confidence_score in [0, 1].
C21_ConfidenceInUnit ==
    result.op = "predict_with_confidence" =>
        /\ Returned(result.out)
        /\ result.out.val.confidence_score = "in [0, 1]"

\* C24: the kitchen-size factor is -0.05 for kitchen_size < 20, 0.0 for
\* every kitchen_size from 20 to 50 inclusive, and +0.10 only for
\* kitchen_size > 50.
C24_KitchenFactor ==
    result.op = "_calculate_kitchen_factor" =>
        result.out = Return(IF result.args < 20 THEN Q(-5, 100)
                            ELSE IF result.args <= 50 THEN Q(0, 100)
                            ELSE Q(10, 100))

\* calculate_risk_probability on an engine for a request
Calculated(self, f) ==
    calculate_risk_probability(self, f.cuisine_type, f.staff_count,
        f.infractions_history, f.kitchen_size, f.region, f.inspection_date)

\* C22: update_priors(data) changes only prior_risk: cuisine_risk_probs, the
\* threshold tables, the temporal flag and the adapter are unchanged, and
\* calculate_risk_probability returns the same result for every input
\* before and after the call.
C22_UpdatePriorsFrame ==
    [][result'.op = "update_priors" =>
        /\ engine' = [engine EXCEPT !.prior_risk = engine'.prior_risk]
        /\ adapter' = adapter
        /\ \A f \in FactorInputs : Calculated(engine', f) = Calculated(engine, f)]_vars

\* update_priors has overwritten the priors of an engine whose table had
\* been learned
C22_Witness ==
    /\ result.op = "update_priors"
    /\ Returned(result.out)
    /\ "risk_level" \in result.args.columns
    /\ engine.prior_risk = Frequencies(result.args.rows)
    /\ engine.prior_risk # DefaultPriorRisk
    /\ engine.cuisine_risk_probs # DefaultCuisineRiskProbs

\* C23: in every engine state reachable from construction by
\* learn_cuisine_probabilities, calibrate_model, cross_validate,
\* update_priors, save_model and load_model of blobs written by save_model,
\* the cuisine table contains the 'Other' entry, so the lookup of an unknown
\* cuisine does not fail.
C23_OtherPresent ==
    /\ Other \in DOMAIN engine.cuisine_risk_probs
    /\ _get_cuisine_probability(engine, Str_Nonexistent)
            = Return(engine.cuisine_risk_probs[Other])

\* a table with learned entries has been loaded from a file written by
\* save_model into an engine whose table differed
C23_Witness ==
    /\ result.op = "load_model"
    /\ result.out = Return(TRUE)
    /\ result.args.before.cuisine_risk_probs # engine.cuisine_risk_probs
    /\ DOMAIN engine.cuisine_risk_probs # DOMAIN DefaultCuisineRiskProbs
    /\ Other \in DOMAIN engine.cuisine_risk_probs

\* the sum of impact_weight over the records in force on the date
RECURSIVE WeightSum(_, _)
WeightSum(regs, date) ==
    IF regs = <<>> THEN QZero
    ELSE IF Head(regs).effective_date_obj <= date
    THEN QAdd(Head(regs).impact_weight, WeightSum(Tail(regs), date))
    ELSE WeightSum(Tail(regs), date)

\* the mean impact_weight of the records in force for the last call
MeanImpact ==
    QDiv(WeightSum(adapter.regulations, result.args.inspection_date),
         Int2Q(Cardinality(IdsInForce(adapter.regulations,
                                      result.args.inspection_date))))

\* C25: for a valid input distribution and a non-empty set of applicable
\* records with positive impact_weight, a mean impact_weight > 1.0 gives an
\* adjusted P(High) not less than the input P(High), and a mean < 1.0 an
\* adjusted P(Low) not less than the input P(Low).
C25_ShiftDirection ==
    (/\ AdjustDone
     /\ IsDistribution(result.args.probabilities)
     /\ ~NoneApplicable(adapter, result.args.inspection_date)
     /\ PositiveWeights(adapter, result.args.inspection_date))
        => /\ QLt(QOne, MeanImpact) =>
                /\ Returned(result.out)
                /\ QLe(result.args.probabilities.High, result.out.val.High)
           /\ QLt(MeanImpact, QOne) =>
                /\ Returned(result.out)
                /\ QLe(result.args.probabilities.Low, result.out.val.Low)

\* C26: in every reachable engine state every key k of the cuisine table is
\* a normalized cuisine category: a prediction whose cuisine argument is k
\* uses table[k] as its base distribution; so after
\* learn_cuisine_probabilities(data) a prediction for a cuisine value
\* present in data uses the distribution just learned for it.
C26_KeysNormalized ==
    \A k \in DOMAIN engine.cuisine_risk_probs :
        _get_cuisine_probability(engine, k)
            = Return(engine.cuisine_risk_probs[k])

\* a distribution divided by the sum of its three values
Renormalized(d) ==
    LET total == QAdd(QAdd(d.Low, d.Medium), d.High)
    IN  [Low |-> QDiv(d.Low, total), Medium |-> QDiv(d.Medium, total),
         High |-> QDiv(d.High, total)]

RowsWithEvidence ==
    {i \in 1..Len(result.args.data.rows) :
        result.args.data.rows[i].cuisine_type = result.args.evidence}

RowsWithBoth ==
    {i \in RowsWithEvidence :
        result.args.data.rows[i].risk_level = result.args.hypothesis}

C30_HandedUnchanged ==
    handed # None => handed[1].contents = handed[1].at_return

\* the prior distributions before and after the update_priors call in
\* progress; the engine's own when no call is in progress
OldOrNewPriors ==
    IF MutationAt("update_priors")
    THEN {Mutation.before.prior_risk, Mutation.after.prior_risk}
    ELSE {engine.prior_risk}

\* C29: when update_priors runs concurrently with save_model or
\* get_model_summary on the same engine, the prior distribution that is
\* saved or returned is entirely the old one or entirely the new one, never
\* a mix of old and new label values.
C29_PriorsOldOrNew ==
    /\ result.op = "save_model" /\ result.out = Return(TRUE)
        => file.model_data.prior_risk \in OldOrNewPriors
    /\ result.op = "get_model_summary"
        => result.out.val.prior_risk_distribution \in OldOrNewPriors

===========================================================================
